---- MODULE Spec2Model ----
(***************************************************************************)
(* A model of the |ALPHA| Hub prototype: the throwaway thread pool         *)
(* (prototype/pool.py), the gossip hub (prototype/hub.py) and the failover *)
(* hub (prototype/failover.py).                                            *)
(*                                                                         *)
(* Byte strings are sequences of symbols.  A symbol is a TLA+ string; its  *)
(* width (Python's len) is the length of that string, except for a digest  *)
(* symbol, which stands for the 32 hexadecimal characters of an MD4        *)
(* hexdigest.  MD4 is taken to be collision free: the digest of a byte     *)
(* string is a symbol built from exactly the bytes that were hashed.       *)
(***************************************************************************)
EXTENDS Integers, Sequences, FiniteSets, Bags, TLC

(* ------------------------------ bounds ------------------------------- *)

\* Number of worker threads (ThreadPool's num_threads parameter).
NumThreads == 2
\* Capacity of the task queue (ThreadPool's max_tasks parameter).
MaxTasks == 1
\* Number of datagrams the network delivers in one behaviour.
MaxRecv == 2
\* The number of datagrams delivered in a burst.
MaxBurst == 3
\* Number of add() calls made by the pool's own test driver.
MaxAdds == 3
\* Number of ticks of the database clock.
MaxClock == 1
\* Number of outbox flushes in one behaviour.
MaxFlush == 1
\* The number of entries of a config section.
MaxNames == 3
\* The number of rows of a table of the data model, and the last value of
\* datetime.utcnow().
MaxRows == 3
MaxUtc == 2
\* The largest id a table of the data model gives a row.
MaxIds == 4
\* The number of datagrams a socket's receive buffer holds under steady
\* traffic; one that arrives at a full buffer is dropped.
MaxBuf == 1

Workers == 1..NumThreads

(* ------------------------------ symbols ------------------------------ *)

NL == "\n"
BS == "\\"
COLON == ":"
\* One byte of the connectionless marker '\xff'.
FF == "~"
Digits == <<"0", "1", "2", "3", "4", "5", "6", "7", "8", "9">>
Whitespace == {" ", NL}

RECURSIVE Flat(_)
Flat(s) == IF s = <<>> THEN "" ELSE Head(s) \o Flat(Tail(s))

\* HASH.new('md4', bytes).hexdigest()
HexDigest(bytes) == "md4(" \o Flat(bytes) \o ")"

\* The symbols that are plain text; every other symbol is a hexdigest.
Words ==
  {NL, BS, COLON, FF, " ", "ab",
   "0", "1", "2", "3", "4", "5", "6", "7", "8", "9",
   "userinfo", "gossip player", "failover player", "got failover player",
   "name", "ip", "cl_guid", "guid", "server", "rowid", "time",
   "Foo", "Bar", "1.2.3.4", "ABCD", "EFGH", "S1", "U1", "T1", "T2", "H1", "X1",
   "k1", "k2", "k3", "k4"}

IsDigest(sym) == sym \notin Words

\* len(sym)
Width(sym) == IF IsDigest(sym) THEN 32 ELSE Len(sym)

RECURSIVE PyLen(_)
PyLen(s) == IF s = <<>> THEN 0 ELSE Width(Head(s)) + PyLen(Tail(s))

\* Index of the first occurrence of sep in s, 0 when there is none.
RECURSIVE Find(_, _, _)
Find(s, sep, i) ==
  IF i > Len(s) THEN 0 ELSE IF s[i] = sep THEN i ELSE Find(s, sep, i + 1)

\* s.split(sep, 1): one part when sep does not occur, two parts otherwise.
Split1(s, sep) ==
  LET i == Find(s, sep, 1)
  IN  IF i = 0 THEN <<s>>
      ELSE <<SubSeq(s, 1, i - 1), SubSeq(s, i + 1, Len(s))>>

\* s.split(sep): all parts, empty ones included.
RECURSIVE SplitAll(_, _)
SplitAll(s, sep) ==
  LET i == Find(s, sep, 1)
  IN  IF i = 0 THEN <<s>>
      ELSE <<SubSeq(s, 1, i - 1)>> \o SplitAll(SubSeq(s, i + 1, Len(s)), sep)

\* s.strip()
RECURSIVE Strip(_)
Strip(s) ==
  IF s = <<>> THEN s
  ELSE IF Head(s) \in Whitespace THEN Strip(Tail(s))
  ELSE IF s[Len(s)] \in Whitespace THEN Strip(SubSeq(s, 1, Len(s) - 1))
  ELSE s

\* '%s' % n and '%i' % n for a natural number n: its decimal digits.
RECURSIVE Decimal(_)
Decimal(n) ==
  IF n < 10 THEN <<Digits[n + 1]>>
  ELSE Decimal(n \div 10) \o <<Digits[(n % 10) + 1]>>

(* --------------------------- configuration --------------------------- *)

\* The resolved config of the gossip hub: host -> (port, secret), as in
\* SERVERS, UPSTREAM (listen) and DOWNSTREAM (tell) of the sample config.
GossipConfig ==
  [servers |-> [h \in {"S1"} |-> <<42, <<"k1">>>>],
   listen  |-> [h \in {"U1"} |-> <<95, <<"k2">>>>],
   tell    |-> [h \in {"T1", "T2"} |->
                 IF h = "T1" THEN <<45, <<"k3">>>> ELSE <<12, <<"k4">>>>]]

\* The resolved config of the failover hub: servers and hubs.
FailoverConfig ==
  [servers |-> [h \in {"S1"} |-> <<27, <<"k1">>>>],
   hubs    |-> [h \in {"H1"} |-> <<95, <<"k3">>>>]]

\* The connected sockets open_sockets() makes for config['tell'], in order.
TellSockets == <<"T1", "T2">>

\* The bound sockets open_sockets() makes: one per servers entry and one per
\* listen (hubs) entry, named after the entry.
GossipSockets == <<"S1", "U1">>
FailoverSockets == <<"S1", "H1">>

(* ------------------------------- codec ------------------------------- *)

Header == <<FF, FF, FF, FF>>

Min(a, b) == IF a < b THEN a ELSE b

\* A faulty parse_userinfo() without the assertion on the count: zip() drops
\* the key that has no value.
ParseUserinfoLenient(userinfo) ==
  LET data == Tail(SplitAll(userinfo, BS))
  IN  [ok    |-> TRUE,
       pairs |-> [i \in 1..(Len(data) \div 2) |->
                   <<data[2 * i - 1], data[2 * i]>>]]

\* parse_userinfo(): the parts after the leading delimiter, as a sequence of
\* (key, value) pairs; ok is FALSE when the assertion on the count fails.
ParseUserinfo(userinfo) ==
  LET data == Tail(SplitAll(userinfo, BS))
  IN  [ok    |-> Len(data) % 2 = 0,
       pairs |-> [i \in 1..(Len(data) \div 2) |->
                   <<data[2 * i - 1], data[2 * i]>>]]

\* key in var, for the dict that dict(zip(keys, values)) builds.
HasKey(pairs, key) == \E i \in 1..Len(pairs) : pairs[i][1] = key

\* var[key]: zip's later pairs overwrite earlier ones.
GetKey(pairs, key) ==
  LET i == CHOOSE j \in 1..Len(pairs) :
             /\ pairs[j][1] = key
             /\ \A k \in (j + 1)..Len(pairs) : pairs[k][1] # key
  IN  pairs[i][2]

\* What a handler did before it touches the database: out is "return" (a
\* packet dropped after a debug message), "length", "reject" or "kind"
\* (dropped for its token's length, its checksum, its kind line), "assert"
\* (the assertion of parse_userinfo() failed), "raise" (another exception
\* left the handler) or "write"
\* (write_player / write_gossip is called with key); digests counts the
\* checksums computed on the way.
Outcome(out, digests, key) == [out |-> out, digests |-> digests, key |-> key]
NoKey == <<>>

\* The natural key write_player() is called with.
PlayerKey(name, ip, guid, server, port) ==
  [name |-> name, ip |-> ip, guid |-> guid, server |-> server, port |-> port]

\* The natural key write_gossip() is called with.
GossipKey(name, ip, guid, server, port, origin) ==
  [name |-> name, ip |-> ip, guid |-> guid, server |-> server, port |-> port,
   origin |-> origin]

\* A faulty handle_userinfo() that compares the length of the token only,
\* never the token with the checksum.
HandleUserinfoUnchecked(config, host, port, packet) ==
  LET header == SubSeq(packet, 1, Min(4, Len(packet)))
      data   == SubSeq(packet, 5, Len(packet))
      one    == Split1(data, NL)
      two    == Split1(one[2], NL)
      var    == ParseUserinfo(two[2])
  IN  IF header # Header THEN Outcome("return", 0, NoKey)
      ELSE IF Len(one) # 2 THEN Outcome("raise", 0, NoKey)
      ELSE IF PyLen(one[1]) # 32 THEN Outcome("length", 0, NoKey)
      ELSE IF Len(two) # 2 THEN Outcome("raise", 1, NoKey)
      ELSE IF two[1] # <<"userinfo">> THEN Outcome("kind", 1, NoKey)
      ELSE IF ~var.ok THEN Outcome("assert", 1, NoKey)
      ELSE IF \E k \in {<<"name">>, <<"ip">>, <<"cl_guid">>} :
                ~HasKey(var.pairs, k)
           THEN Outcome("raise", 1, NoKey)
      ELSE Outcome("write", 1,
                   PlayerKey(GetKey(var.pairs, <<"name">>),
                             GetKey(var.pairs, <<"ip">>),
                             GetKey(var.pairs, <<"cl_guid">>),
                             <<host>>, port))

\* handle_userinfo() up to its call of write_player().
HandleUserinfo(config, host, port, packet) ==
  LET header == SubSeq(packet, 1, Min(4, Len(packet)))
      data   == SubSeq(packet, 5, Len(packet))
      one    == Split1(data, NL)
      md4    == one[1]
      body   == one[2]
      secret == config.servers[host][2]
      checksum == HexDigest(secret \o <<NL>> \o body)
      two    == Split1(body, NL)
      kind   == two[1]
      var    == ParseUserinfo(two[2])
  IN  IF header # Header THEN Outcome("return", 0, NoKey)
      ELSE IF Len(one) # 2 THEN Outcome("raise", 0, NoKey)
      ELSE IF PyLen(md4) # 32 THEN Outcome("length", 0, NoKey)
      ELSE IF md4 # <<checksum>> THEN Outcome("reject", 1, NoKey)
      ELSE IF Len(two) # 2 THEN Outcome("raise", 1, NoKey)
      ELSE IF kind # <<"userinfo">> THEN Outcome("kind", 1, NoKey)
      ELSE IF ~var.ok THEN Outcome("assert", 1, NoKey)
      ELSE IF \E k \in {<<"name">>, <<"ip">>, <<"cl_guid">>} :
                ~HasKey(var.pairs, k)
           THEN Outcome("raise", 1, NoKey)
      ELSE Outcome("write", 1,
                   PlayerKey(GetKey(var.pairs, <<"name">>),
                             GetKey(var.pairs, <<"ip">>),
                             GetKey(var.pairs, <<"cl_guid">>),
                             <<host>>, port))

\* A faulty payload that leaves the port of the game server out.
TellPayloadHostOnly(host, port, name, ip, guid) ==
  <<"gossip player", NL, BS, "server", BS, host>>
    \o <<BS, "name", BS>> \o name \o <<BS, "ip", BS>> \o ip
    \o <<BS, "guid", BS>> \o guid

\* The payload echo_tell() builds for a sighting.
TellPayload(host, port, name, ip, guid) ==
  <<"gossip player", NL, BS, "server", BS, host, COLON>> \o Decimal(port)
    \o <<BS, "name", BS>> \o name \o <<BS, "ip", BS>> \o ip
    \o <<BS, "guid", BS>> \o guid

\* md4+'\n'+payload, the packet sent to a hub that holds secret.
Authenticate(secret, payload) ==
  <<HexDigest(secret \o <<NL>> \o payload), NL>> \o payload

\* handle_gossip() up to its call of write_gossip().
HandleGossip(config, host, port, packet) ==
  LET one    == Split1(packet, NL)
      md4    == one[1]
      body   == one[2]
      secret == config.listen[host][2]
      checksum == HexDigest(secret \o <<NL>> \o body)
      two    == Split1(body, NL)
      kind   == two[1]
      var    == ParseUserinfo(two[2])
      origin == <<host, COLON>> \o Decimal(port)
      server == SplitAll(GetKey(var.pairs, <<"server">>), COLON)
  IN  IF Len(one) # 2 THEN Outcome("raise", 0, NoKey)
      ELSE IF PyLen(md4) # 32 THEN Outcome("length", 0, NoKey)
      ELSE IF md4 # <<checksum>> THEN Outcome("reject", 1, NoKey)
      ELSE IF Len(two) # 2 THEN Outcome("raise", 1, NoKey)
      ELSE IF kind # <<"gossip player">> THEN Outcome("kind", 1, NoKey)
      ELSE IF ~var.ok THEN Outcome("assert", 1, NoKey)
      ELSE IF ~HasKey(var.pairs, <<"server">>) THEN Outcome("raise", 1, NoKey)
      ELSE IF Len(server) # 2 THEN Outcome("raise", 1, NoKey)
      ELSE IF \E k \in {<<"name">>, <<"ip">>, <<"guid">>} :
                ~HasKey(var.pairs, k)
           THEN Outcome("raise", 1, NoKey)
      ELSE Outcome("write", 1,
                   GossipKey(GetKey(var.pairs, <<"name">>),
                             GetKey(var.pairs, <<"ip">>),
                             GetKey(var.pairs, <<"guid">>),
                             server[1], server[2], origin))

\* A faulty handle_hub() that does not compare the checksum.
HandleHubUnchecked(config, host, packet) ==
  LET one == Split1(packet, NL)
      two == Split1(one[2], NL)
  IN  IF Len(one) # 2 THEN Outcome("raise", 0, NoKey)
      ELSE IF PyLen(one[1]) # 32 THEN Outcome("length", 0, NoKey)
      ELSE IF Len(two) # 2 THEN Outcome("raise", 1, NoKey)
      ELSE IF two[1] # <<"got failover player">>
           THEN Outcome("kind", 1, NoKey)
      ELSE Outcome("delete", 1, Strip(two[2]))

\* handle_hub() up to its call of del_db_entry(): out is "delete" when it
\* is called, with the stripped rest of the packet as its rowid argument.
HandleHub(config, host, packet) ==
  LET one    == Split1(packet, NL)
      md4    == one[1]
      body   == one[2]
      secret == config.hubs[host][2]
      checksum == HexDigest(secret \o <<NL>> \o body)
      two    == Split1(body, NL)
      kind   == two[1]
  IN  IF Len(one) # 2 THEN Outcome("raise", 0, NoKey)
      ELSE IF PyLen(md4) # 32 THEN Outcome("length", 0, NoKey)
      ELSE IF md4 # <<checksum>> THEN Outcome("reject", 1, NoKey)
      ELSE IF Len(two) # 2 THEN Outcome("raise", 1, NoKey)
      ELSE IF kind # <<"got failover player">>
           THEN Outcome("kind", 1, NoKey)
      ELSE Outcome("delete", 1, Strip(two[2]))

\* The number a one-character text compares equal to in `rowid`=?, or -1
\* when the text is not numeric (it then equals no rowid).
RowidOf(sym) ==
  IF \E d \in 1..10 : Digits[d] = sym
  THEN (CHOOSE d \in 1..10 : Digits[d] = sym) - 1
  ELSE -1

\* del_db_entry(): conn.execute(sql, (rowid)) is handed the text itself as
\* its sequence of parameters, one parameter per character, for a statement
\* with one placeholder.
DelDbEntry(rowid) ==
  IF PyLen(rowid) # 1 THEN [out |-> "raise", rowid |-> -1]
  ELSE [out |-> "delete", rowid |-> RowidOf(rowid[1])]

(* ------------------------------ tables ------------------------------- *)

\* A faulty SELECT that leaves guid out of its WHERE clause.
SelectKeyAnyGuid(tbl, key) ==
  {i \in 1..Len(tbl) : [tbl[i].key EXCEPT !.guid = key.guid] = key}

\* SELECT * FROM tbl WHERE <every key column matches>
SelectKey(tbl, key) == {i \in 1..Len(tbl) : tbl[i].key = key}

\* INSERT INTO tbl (<key columns>) VALUES (...), at time now: first and last
\* default to the current time, count to 1.
InsertRow(tbl, key, now) ==
  Append(tbl, [key |-> key, first |-> now, last |-> now, count |-> 1])

\* UPDATE tbl SET guid=? WHERE <every key column matches>, at time now: guid
\* is set to the value it has; the update trigger refreshes last and count.
UpdateRows(tbl, key, now) ==
  [i \in 1..Len(tbl) |->
     IF tbl[i].key = key
     THEN [tbl[i] EXCEPT !.last = now, !.count = @ + 1]
     ELSE tbl[i]]

\* INSERT INTO failover (server, port, packet) VALUES (...), at time now.
InsertFailover(tbl, rowid, server, port, packet, now) ==
  Append(tbl, [rowid |-> rowid, server |-> server, port |-> port,
               packet |-> packet, time |-> now])

RECURSIVE SelectSeq2(_, _)
SelectSeq2(tbl, rowid) ==
  IF tbl = <<>> THEN <<>>
  ELSE IF Head(tbl).rowid = rowid THEN SelectSeq2(Tail(tbl), rowid)
  ELSE <<Head(tbl)>> \o SelectSeq2(Tail(tbl), rowid)

\* A faulty DELETE that takes the oldest entry when no row has the rowid.
DeleteFailoverOrOldest(tbl, rowid) ==
  IF \A i \in 1..Len(tbl) : tbl[i].rowid # rowid
  THEN (IF tbl = <<>> THEN tbl ELSE Tail(tbl))
  ELSE SelectSeq2(tbl, rowid)

\* delete from failover where `rowid`=?
DeleteFailover(tbl, rowid) == SelectSeq2(tbl, rowid)

\* SELECT 'rowid','server','port','packet', 'time' FROM failover: the
\* quoted names are string literals, so every row of the result holds these
\* five texts instead of the row's columns.
GetDbEntries(tbl) ==
  [i \in 1..Len(tbl) |->
     <<[text |-> TRUE, v |-> "rowid"], [text |-> TRUE, v |-> "server"],
       [text |-> TRUE, v |-> "port"], [text |-> TRUE, v |-> "packet"],
       [text |-> TRUE, v |-> "time"]>>]

\* '%i:%i' % (ent[1], ent[2]): a TypeError unless both are numbers.
SourceServer(ent) ==
  IF ent[2].text \/ ent[3].text THEN [ok |-> FALSE, v |-> <<>>]
  ELSE [ok |-> TRUE, v |-> Decimal(ent[2].v) \o <<COLON>> \o Decimal(ent[3].v)]

(* -------------------------- config sections -------------------------- *)

\* Host identifiers a config section may name: two host names and a literal
\* address; and the addresses a name may resolve to.
HostNames == {"a.tld", "b.tld"}
Literals == {"1.1.1.1"}
Addresses == {"1.1.1.1", "2.2.2.2"}
Identifiers == HostNames \cup Literals

\* section[server]: the (port, secret) configured for a host identifier.
SectionValue(server) ==
  IF server = "a.tld" THEN <<42, <<"k1">>>>
  ELSE IF server = "b.tld" THEN <<543, <<"k2">>>>
  ELSE <<95, <<"k3">>>>

\* The sections of a config file, each as the sequence `for server in
\* section` visits: a dict has its keys once, in an order of its own.
Sections ==
  {q \in UNION {[1..n -> Identifiers] : n \in 0..MaxNames} :
     \A i, j \in 1..Len(q) : q[i] = q[j] => i = j}

\* What gethostbyname() can answer: an address for a host name, or "" for
\* socket.gaierror; a literal address is returned as it is.
Resolvers ==
  {r \in [Identifiers -> Addresses \cup {""}] :
     \A a \in Literals : r[a] = a}

\* A faulty check for duplicates that is never made.
NoDuplicatesUnchecked(res, ip) == TRUE

\* assert ip not in resolved
NoDuplicates(res, ip) == ip \notin DOMAIN res

\* resolved[ip] = value
SetItem(res, ip, value) ==
  [a \in DOMAIN res \cup {ip} |-> IF a = ip THEN value ELSE res[a]]

(* ----------------------------- two hubs ----------------------------- *)

\* The secrets a DOWNSTREAM entry of the telling hub and the UPSTREAM entry
\* of the listening hub may hold.
Secrets == {<<"k3">>, <<"k4">>}

\* Values parse_userinfo() can give for name, ip and cl_guid: texts without
\* the delimiter, among them the empty one and ones with a newline or a
\* colon.
Names == {<<"Foo">>, <<>>, <<"Foo", NL, "Bar">>, <<"Bar", COLON, " ">>}
Ips == {<<"1.2.3.4">>}
Guids == {<<"ABCD">>, <<>>}

\* The address recvfrom() gave for the game server, the address of the
\* telling hub as the listening hub sees it.
ServerHosts == {"S1", "X1"}
ServerPorts == {7, 42}
TellerHost == "U1"
TellerPorts == {5, 31}

\* A sighting on its way from one hub to the next: tell is the secret
\* echo_tell() signs with, listen the one handle_gossip() checks with.
Trips ==
  [tell : Secrets, listen : Secrets, name : Names, ip : Ips, guid : Guids,
   host : ServerHosts, port : ServerPorts, from : TellerPorts]
NoTrip == <<>>

\* The config of the listening hub: its UPSTREAM entry for the telling hub.
ListenConfig(secret) == [listen |-> [h \in {TellerHost} |-> <<95, secret>>]]

(* ------------------------------- roles ------------------------------- *)

\* Configurations in which the address B1 may be a game server, a peer
\* (listen for hub.py, hubs for failover.py) or both: each section of the
\* config file is resolved by itself, so nothing keeps them apart.
ServerSets == {{"S1"}, {"S1", "B1"}}
PeerSets == {{"U1"}, {"U1", "B1"}}
RoleConfig(servers, peers) ==
  [servers |-> [h \in servers |-> <<42, <<"k1">>>>],
   listen  |-> [h \in peers |-> <<95, <<"k2">>>>],
   hubs    |-> [h \in peers |-> <<95, <<"k2">>>>]]

\* A datagram and the program that receives it: the sender's address and
\* port, the socket it arrives on (one bound for a servers entry or one
\* bound for a peer entry) and what it carries (a userinfo packet under the
\* servers secret, the peer's message under the peers secret, or junk).
RoleCases ==
  [prog : {"hub", "failover"}, servers : ServerSets, peers : PeerSets,
   host : {"S1", "U1", "B1", "X1"}, port : {7, 42},
   sock : {"servers", "peers"}, carries : {"userinfo", "peer", "junk"}]
NoCase == <<>>

(* ------------------------------- state ------------------------------- *)

VARIABLES
  mode,      \* which program runs: "pool", "gossip", "failover", ...
  queue,     \* ThreadPool.__queue: the tasks put and not yet taken
  wpc,       \* where each worker thread stands
  wtask,     \* the task each worker holds
  wstmt,     \* the SQL statement each worker is about to run or has run
  wtell,     \* echo_tell(): index of the next tell socket, per worker
  local,     \* each worker's thread-local storage
  dpc,       \* where the thread that calls add() stands
  dtask,     \* the task that thread is adding
  ready,     \* the ready sockets select() returned and not yet read
  sockbuf,   \* datagrams delivered to each bound socket and not yet read
  nrecv,     \* number of datagrams delivered by the network
  nextId,    \* number of tasks built so far
  players,   \* table Players
  gossips,   \* table Gossips
  outbox,    \* table failover
  lastRowid, \* the last rowid given to a row of table failover
  clock,     \* the database's current time
  sent,      \* bag of the packets handed to sendall()
  digests,   \* number of checksums computed
  accepted,  \* ids of the tasks for which add() returned
  rejected,  \* ids of the tasks for which add() raised
  finished,  \* ids of the tasks whose run ended and was marked task_done()
  created,   \* rowids of the entries committed to table failover
  acked,     \* rowids carried by the acknowledgments processed
  flushes,   \* number of outbox flushes
  log,       \* the log: pairs of a task id and what was logged for it
  closed,    \* whether main() closed the database and the sockets
  prog,      \* load_config(): the program whose resolve_config() runs
  section,   \* resolve_config(): the host identifiers in iteration order
  dns,       \* what gethostbyname() returns for each host identifier
  todo,      \* resolve_config(): the identifiers the loop has yet to visit
  resolved,  \* resolve_config(): the dictionary built so far
  spc,       \* where resolve_config() stands
  utcnow,    \* model.py: the value of datetime.utcnow()
  session,   \* model.py: the new Player objects added to the session
  model_players, \* model.py: table players
  users,     \* model.py: table users
  game_admins, \* model.py: table game_admins
  trip,      \* two hubs: the sighting, the secrets and the sender's address
  tpc,       \* two hubs: where the sighting is on its way
  tell_packet, \* two hubs: the packet echo_tell() built
  listen_out, \* two hubs: what handle_gossip() did with the packet
  rcase,     \* roles: the datagram and the configuration it meets
  rpc,       \* roles: where the datagram is
  rtask,     \* roles: the task run() has handed to the pool
  rout       \* roles: what handle_packet() did with the task

poolVars == <<queue, wpc, wtask, wstmt, wtell, local>>
callVars == <<dpc, dtask, ready, nextId, accepted, rejected>>
netVars  == <<sockbuf, nrecv>>
dbVars   == <<players, gossips, outbox, lastRowid>>
histVars == <<sent, digests, finished, created, acked, flushes, log, closed>>
startVars == <<prog, section, dns, todo, resolved, spc>>
modelVars == <<utcnow, session, model_players, users, game_admins>>
tripVars == <<trip, tpc, tell_packet, listen_out>>
roleVars == <<rcase, rpc, rtask, rout>>
sideVars == <<startVars, modelVars, tripVars, roleVars, roleVars>>
vars == <<mode, sideVars, poolVars, callVars, netVars, dbVars, clock, histVars>>
relayVars == <<poolVars, callVars, netVars, dbVars, clock, histVars>>

NoTask == [id |-> 0, func |-> "", packet |-> <<>>, host |-> "", port |-> 0]
NoStmt == [op |-> "none", tbl |-> "", key |-> NoKey, at |-> 0]
Task(id, func, packet, host, port) ==
  [id |-> id, func |-> func, packet |-> packet, host |-> host, port |-> port]

\* The callables handed to add(): Python functions that return ("task",
\* which takes _tp_local last as task() of test() does, and "local_first",
\* which takes it first as the task of add()'s docstring does), that raise an
\* Exception, or that raise a BaseException that is no Exception (such as
\* SystemExit), or that never return, and a callable that is no Python
\* function (an instance with __call__, a builtin, a partial).
PoolFuncs ==
  {"task", "local_first", "raising", "exiting", "hanging", "callable_object"}

\* The parameters getargspec() reports for a function.
Params(func) ==
  IF func = "task" THEN <<"number", "_tp_local">>
  ELSE IF func = "local_first" THEN <<"_tp_local", "number">>
  ELSE IF func = "handle_packet" THEN <<"packet", "host", "port", "_tp_local">>
  ELSE <<"number">>

\* inspect.getargspec(func) raises TypeError unless func is a Python
\* function or method.
GetArgSpecOk(func) == func # "callable_object"

Sockets == {"S1", "U1", "H1"}

Init ==
  /\ mode \in {"pool", "gossip", "failover", "burst", "keys", "startup",
              "players", "users", "trip", "roles", "stream"}
  /\ queue = <<>>
  /\ wpc = [w \in Workers |-> "start"]
  /\ wtask = [w \in Workers |-> NoTask]
  /\ wstmt = [w \in Workers |-> NoStmt]
  /\ wtell = [w \in Workers |-> 0]
  /\ local = [w \in Workers |->
                [ready |-> FALSE, owner |-> 0, y |-> 0, inits |-> 0]]
  /\ dpc = IF mode = "pool" THEN "submit" ELSE "select"
  /\ dtask = NoTask
  /\ ready = <<>>
  /\ sockbuf = [s \in Sockets |-> <<>>]
  /\ nrecv = 0
  /\ nextId = 0
  /\ players = <<>>
  /\ gossips = <<>>
  /\ \/ outbox = <<>> /\ lastRowid = 0
     \/ /\ mode \in {"failover", "stream"}
        /\ lastRowid = 9
        /\ outbox = InsertFailover(<<>>, 9, "S1", 7, Header, 0)
  /\ clock = 0
  /\ sent = EmptyBag
  /\ digests = 0
  /\ accepted = {}
  /\ rejected = {}
  /\ finished = {}
  /\ created = {outbox[i].rowid : i \in 1..Len(outbox)}
  /\ acked = {}
  /\ flushes = 0
  /\ log = {}
  /\ closed = FALSE
  /\ IF mode = "startup"
     THEN /\ prog \in {"hub", "failover"}
          /\ section \in Sections
          /\ dns \in Resolvers
          /\ spc = "loop"
     ELSE /\ prog = ""
          /\ section = <<>>
          /\ dns = <<>>
          /\ spc = "idle"
  /\ todo = section
  /\ resolved = <<>>
  /\ utcnow = 0
  /\ session = <<>>
  /\ model_players = <<>>
  /\ users = <<>>
  /\ game_admins = <<>>
  /\ IF mode = "trip"
     THEN /\ trip \in Trips
          /\ tpc = "tell"
     ELSE /\ trip = NoTrip
          /\ tpc = "idle"
  /\ tell_packet = <<>>
  /\ listen_out = Outcome("", 0, NoKey)
  /\ IF mode = "roles"
     THEN /\ rcase \in RoleCases
          /\ rpc = "recv"
     ELSE /\ rcase = NoCase
          /\ rpc = "idle"
  /\ rtask = NoTask
  /\ rout = [role |-> ""] @@ Outcome("", 0, NoKey)

(* ---------------------------- thread pool ---------------------------- *)

\* The process runs until its main thread ends: main() returns after
\* safe_run(), test() ends with the exception add() raised.  The workers
\* are daemon threads.
Alive == ~closed /\ ~(mode = "pool" /\ dpc = "stopped")

\* A faulty Queue that holds one task more than maxsize.
QueueFullOffByOne(q) == Len(q) = MaxTasks + 1

\* Queue.put(): the queue is full when _qsize() == maxsize.
QueueFull(q) == Len(q) = MaxTasks

\* Queue._put()
QueuePut(q, task) == Append(q, task)

\* ThreadPool.add() as called by a thread at pc `back` once the task is
\* built: the task is put at once when there is room, otherwise the caller
\* blocks in put().
AddTask(task, back) ==
  /\ nextId' = task.id
  /\ IF QueueFull(queue)
     THEN /\ dpc' = "add"
          /\ dtask' = task
          /\ UNCHANGED <<queue, accepted>>
     ELSE /\ queue' = QueuePut(queue, task)
          /\ accepted' = accepted \cup {task.id}
          /\ dpc' = back
          /\ dtask' = NoTask
  /\ UNCHANGED rejected

\* Where the caller of add() goes on when add() returns.
AfterAdd ==
  IF mode = "pool" THEN "submit"
  ELSE IF ready = <<>> THEN "select" ELSE "loop"

\* ThreadPool.add(): a caller blocked in put() is woken with room in the queue.
AddPut ==
  /\ dpc = "add"
  /\ ~QueueFull(queue)
  /\ queue' = QueuePut(queue, dtask)
  /\ accepted' = accepted \cup {dtask.id}
  /\ dpc' = AfterAdd
  /\ dtask' = NoTask
  /\ UNCHANGED <<mode, sideVars, wpc, wtask, wstmt, wtell, local, ready, nextId,
                 rejected, netVars, dbVars, clock, histVars>>

\* A faulty add() that gives the task up after the timeout and returns.
AddTimeoutDrop ==
  /\ dpc = "add"
  /\ Len(queue) = MaxTasks
  /\ rejected' = rejected \cup {dtask.id}
  /\ dpc' = AfterAdd
  /\ dtask' = NoTask
  /\ UNCHANGED <<mode, sideVars, poolVars, ready, nextId, accepted, netVars, dbVars,
                 clock, histVars>>

\* ThreadPool.add(): the queue stayed full for the timeout; put() raises
\* Queue.Full, which leaves add() and its caller (run(), caught by
\* safe_run(); test() has no handler).
AddTimeout ==
  /\ dpc = "add"
  /\ QueueFull(queue)
  /\ rejected' = rejected \cup {dtask.id}
  /\ dpc' = "stopped"
  /\ dtask' = NoTask
  /\ UNCHANGED <<mode, sideVars, poolVars, ready, nextId, accepted, netVars, dbVars,
                 clock, histVars>>

\* test(): the driver of the pool calls add() with a callable.
Submit ==
  /\ mode = "pool"
  /\ dpc = "submit"
  /\ nextId < MaxAdds
  /\ \E func \in PoolFuncs :
       AddTask(Task(nextId + 1, func, <<>>, "", 0), "submit")
  /\ UNCHANGED <<mode, sideVars, wpc, wtask, wstmt, wtell, local, ready, netVars,
                 dbVars, clock, histVars>>

\* The ways init_local can end: the hook handed to the pool by its driver
\* returns or raises; thread_open_database() of the hubs opens the database
\* main() has opened and set up before, and returns.
HookResults == IF mode = "pool" THEN BOOLEAN ELSE {TRUE}

\* A faulty run() that enters the task loop although init_local raised.
WorkerStartAnyway(w) ==
  /\ wpc[w] = "start"
  /\ \E ok \in HookResults :
       local' = [local EXCEPT ![w] = [ready |-> ok, owner |-> w, y |-> 0,
                                      inits |-> @.inits + 1]]
  /\ wpc' = [wpc EXCEPT ![w] = "get"]
  /\ UNCHANGED <<mode, sideVars, queue, wtask, wstmt, wtell, callVars, netVars,
                 dbVars, clock, histVars>>

\* _Worker.run() / __make_local(): the storage is created and init_local
\* run on it, before __run_forever() starts.  An exception of init_local
\* leaves __make_local() and run(): the thread ends ("failed") without
\* entering its task loop.
WorkerStart(w) ==
  /\ wpc[w] = "start"
  /\ \E ok \in HookResults :
       /\ local' = [local EXCEPT ![w] = [ready |-> ok, owner |-> w, y |-> 0,
                                         inits |-> @.inits + 1]]
       /\ wpc' = [wpc EXCEPT ![w] = IF ok THEN "get" ELSE "failed"]
  /\ UNCHANGED <<mode, sideVars, queue, wtask, wstmt, wtell, callVars, netVars,
                 dbVars, clock, histVars>>

\* __run_forever(): task = self.__task_queue.get()
WorkerGet(w) ==
  /\ wpc[w] = "get"
  /\ queue # <<>>
  /\ wtask' = [wtask EXCEPT ![w] = Head(queue)]
  /\ queue' = Tail(queue)
  /\ wpc' = [wpc EXCEPT ![w] = "run"]
  /\ UNCHANGED <<mode, sideVars, wstmt, wtell, local, callVars, netVars, dbVars,
                 clock, histVars>>

\* What calling a callable of the pool's driver does: it returns, raises
\* an Exception, raises a BaseException that is no Exception, or never
\* comes back.
FuncResult(func) ==
  IF func = "raising" THEN "raise"
  ELSE IF func = "exiting" THEN "exit"
  ELSE IF func = "hanging" THEN "hang"
  ELSE "return"

\* A faulty __run_task() without its try: whatever the call raises leaves
\* it.
RunTaskNoCatch(inspectable, result) ==
  IF inspectable /\ result = "return" THEN "get" ELSE "dead"

\* __run_task(): where the worker stands after it.  getargspec() runs
\* outside the try; inside it `except Exception` catches and logs what the
\* call raises.  "dead": an exception left __run_task() and with it run(),
\* the thread has ended; "get": the worker goes on to task_done() and the
\* next get().
RunTask(inspectable, result) ==
  IF ~inspectable THEN "dead"
  ELSE IF result = "exit" THEN "dead"
  ELSE "get"

\* What __run_task() logs for the task: L.exception() in the handler.
RunLog(id, inspectable, result) ==
  IF inspectable /\ result = "raise" THEN {<<id, "exception">>} ELSE {}

\* The positional arguments a task was submitted with.
ArgsOf(t) ==
  IF t.func = "handle_packet" THEN <<t.packet, t.host, t.port>> ELSE <<t.id>>

\* A faulty pool with one storage, that of the first worker, for all.
StorageShared(w) == 1

\* The storage a worker hands to its tasks: the one its run() made.
StorageOf(w) == w

\* The position of a name among the parameters, 0 when it is none of them.
IndexOf(params, name) ==
  IF \E i \in 1..Len(params) : params[i] = name
  THEN CHOOSE i \in 1..Len(params) : params[i] = name
  ELSE 0

\* The call of __run_task(): func(_tp_local=storage, *args) when func has a
\* parameter _tp_local, func(*args) otherwise.  Python binds the positional
\* arguments to the leading parameters and then the keyword; the call
\* raises TypeError when a parameter gets two values or none.  env maps the
\* parameters to their values.
Bind(params, args, storage) ==
  LET p      == IndexOf(params, "_tp_local")
      names  == {params[i] : i \in 1..Len(params)}
      failed == [ok |-> FALSE, env |-> <<>>]
  IN  IF p = 0
      THEN IF Len(args) # Len(params) THEN failed
           ELSE [ok |-> TRUE,
                 env |-> [n \in names |-> args[IndexOf(params, n)]]]
      ELSE IF p <= Len(args) THEN failed
      ELSE IF Len(args) + 1 # Len(params) THEN failed
      ELSE [ok |-> TRUE,
            env |-> [n \in names |->
                       IF n = "_tp_local" THEN storage
                       ELSE args[IndexOf(params, n)]]]

\* The functions of the pool's driver whose body ends with
\* _tp_local.y += 1 and the message that the task has finished.
Counting == {"task", "local_first"}

\* __run_forever() / __run_task() for a task of the pool's driver: the call
\* of the task has ended.  A call that never comes back keeps the worker in
\* __run_task().
WorkerRun(w) ==
  /\ mode = "pool"
  /\ Alive
  /\ wpc[w] = "run"
  /\ FuncResult(wtask[w].func) # "hang"
  /\ LET func   == wtask[w].func
         seen   == GetArgSpecOk(func)
         call   == Bind(Params(func), ArgsOf(wtask[w]), StorageOf(w))
         result == IF seen /\ ~call.ok THEN "raise" ELSE FuncResult(func)
         next   == RunTask(seen, result)
         counts == seen /\ call.ok /\ func \in Counting
     IN  /\ wpc' = [wpc EXCEPT ![w] = next]
         /\ log' = log \cup RunLog(wtask[w].id, seen, result)
                       \cup (IF counts THEN {<<wtask[w].id, "finished">>}
                             ELSE {})
         /\ IF next = "get"
            THEN /\ finished' = finished \cup {wtask[w].id}
                 /\ wtask' = [wtask EXCEPT ![w] = NoTask]
            ELSE UNCHANGED <<finished, wtask>>
         /\ local' = IF counts
                     THEN [local EXCEPT ![call.env["_tp_local"]].y = @ + 1]
                     ELSE local
  /\ UNCHANGED <<mode, sideVars, queue, wstmt, wtell, callVars, netVars, dbVars,
                 clock, sent, digests, created, acked, flushes, closed>>

(* ------------------------------ network ------------------------------ *)

SightingText ==
  <<BS, "name", BS, "Foo", BS, "ip", BS, "1.2.3.4", BS, "cl_guid", BS, "ABCD">>
UserinfoPayload == <<"userinfo", NL>> \o SightingText
GossipPayload == TellPayload("S1", 7, <<"Foo">>, <<"1.2.3.4">>, <<"ABCD">>)
AckPayload(id) == <<"got failover player", NL>> \o id

\* The packet a game server sends: marker, checksum, payload.
ServerPacket(secret, payload) == Header \o Authenticate(secret, payload)

\* The payload the failover hub's echo_to_hubs() builds for the entry with
\* rowid 9 that holds a userinfo packet of server S1.
FailoverPlayerPayload ==
  <<"failover player", NL, BS, "rowid", BS, "9", BS, "server", BS, "S1",
    COLON, "7", BS, "time", BS, "T1", NL>>
    \o ServerPacket(<<"k1">>, UserinfoPayload)

Datagram(host, sock, packet) ==
  [host |-> host, port |-> 7, sock |-> sock, packet |-> packet]

\* The datagrams the network may deliver to the gossip hub: well-formed and
\* malformed ones from the configured server S1, from the configured
\* upstream hub U1, and from the unconfigured sender X1.
GossipNet ==
  {Datagram("S1", "S1", p) : p \in
     {ServerPacket(<<"k1">>, UserinfoPayload),
      ServerPacket(<<"k2">>, UserinfoPayload),
      <<>>,
      <<FF, FF>>,
      Header \o <<"ab">>,
      Header \o <<"ab", NL>> \o UserinfoPayload,
      ServerPacket(<<"k1">>, <<"userinfo">>),
      ServerPacket(<<"k1">>, GossipPayload),
      ServerPacket(<<"k1">>, UserinfoPayload \o <<BS, "x">>),
      ServerPacket(<<"k1">>, <<"userinfo", NL, BS, "name", BS, "Foo">>)}}
  \cup
  {Datagram("U1", "U1", p) : p \in
     {Authenticate(<<"k2">>, GossipPayload),
      Authenticate(<<"k1">>, GossipPayload),
      Authenticate(<<"k2">>, FailoverPlayerPayload),
      <<"ab">>,
      <<"ab", NL>> \o GossipPayload,
      Authenticate(<<"k2">>, UserinfoPayload),
      Authenticate(<<"k2">>, GossipPayload \o <<BS, "x">>),
      Authenticate(<<"k2">>, <<"gossip player", NL, BS, "server", BS, "S1",
                               BS, "name", BS, "Foo", BS, "ip", BS, "1.2.3.4",
                               BS, "guid", BS, "ABCD">>)}}
  \cup
  {Datagram("X1", "S1", ServerPacket(<<"k1">>, UserinfoPayload)),
   Datagram("X1", "U1", Authenticate(<<"k2">>, GossipPayload))}

\* The datagrams the network may deliver to the failover hub.
FailoverNet ==
  {Datagram("S1", "S1", p) : p \in
     {ServerPacket(<<"k1">>, UserinfoPayload), <<>>}}
  \cup
  {Datagram("H1", "H1", p) : p \in
     {Authenticate(<<"k3">>, AckPayload(<<"1">>)),
      Authenticate(<<"k3">>, AckPayload(<<"9", NL>>)),
      Authenticate(<<"k3">>, AckPayload(<<"1", "0">>)),
      Authenticate(<<"k1">>, AckPayload(<<"9">>)),
      Authenticate(<<"k3">>, <<"failover player", NL, "9">>),
      <<"ab">>}}
  \cup
  {Datagram("X1", "H1", Authenticate(<<"k3">>, AckPayload(<<"9">>))),
   Datagram("X1", "S1", ServerPacket(<<"k1">>, UserinfoPayload))}

\* The datagrams of a burst at the gossip hub.
BurstNet ==
  {Datagram("S1", "S1", ServerPacket(<<"k1">>, UserinfoPayload)),
   Datagram("S1", "S1", ServerPacket(<<"k2">>, UserinfoPayload)),
   Datagram("U1", "U1", Authenticate(<<"k2">>, GossipPayload))}

\* The datagrams of two players that differ in their guid only, as a game
\* server reports them and as an upstream hub tells them.
KeyNet ==
  {Datagram("S1", "S1", ServerPacket(<<"k1">>, <<"userinfo", NL>> \o
     <<BS, "name", BS, "Foo", BS, "ip", BS, "1.2.3.4", BS, "cl_guid", BS, g>>))
     : g \in {"ABCD", "EFGH"}}
  \cup
  {Datagram("U1", "U1", Authenticate(<<"k2">>,
     TellPayload("S1", 7, <<"Foo">>, <<"1.2.3.4">>, <<g>>)))
     : g \in {"ABCD", "EFGH"}}

\* The datagrams of steady traffic at the failover hub that leaves table
\* failover as it is: a sender with no role writes to either socket.
StreamNet ==
  {Datagram("X1", "H1", Authenticate(<<"k3">>, AckPayload(<<"9">>))),
   Datagram("X1", "S1", ServerPacket(<<"k1">>, UserinfoPayload))}

\* The process is hub.py: mode "burst" is the gossip hub with the datagrams
\* of BurstNet.  Mode "stream" is the failover hub with datagrams that keep
\* arriving.
Gossip == mode \in {"gossip", "burst", "keys"}
Failover == mode \in {"failover", "stream"}
Net ==
  IF mode = "burst" THEN BurstNet
  ELSE IF mode = "keys" THEN KeyNet
  ELSE IF mode = "stream" THEN StreamNet
  ELSE IF mode = "gossip" THEN GossipNet ELSE FailoverNet
RecvLimit == IF mode = "burst" THEN MaxBurst ELSE MaxRecv
BoundSockets == IF Gossip THEN GossipSockets ELSE FailoverSockets
Relay == mode \in {"gossip", "failover", "burst", "keys", "stream"}

\* The model's name for the next task: the tasks of one behaviour are
\* numbered in the order of their add(); under steady traffic the name of
\* a task that is over is used again.
InFlight ==
  {queue[i].id : i \in 1..Len(queue)} \cup {wtask[w].id : w \in Workers}
    \cup {dtask.id}
NewId ==
  IF mode = "stream"
  THEN CHOOSE i \in 1..(MaxTasks + NumThreads + 2) :
         /\ i \notin InFlight
         /\ \A j \in 1..(i - 1) : j \in InFlight
  ELSE nextId + 1

\* The network delivers a datagram to the socket it is addressed to.  The
\* dispatcher looks at its sockets in select() only, so a delivery at any
\* other moment is the same as one when it is next in select().
Arrive ==
  /\ Relay
  /\ dpc = "select"
  /\ \E d \in Net :
       /\ IF mode = "stream" THEN Len(sockbuf[d.sock]) < MaxBuf
                             ELSE nrecv < RecvLimit
       /\ sockbuf' = [sockbuf EXCEPT ![d.sock] = Append(@, d)]
  /\ nrecv' = IF mode = "stream" THEN nrecv ELSE nrecv + 1
  /\ UNCHANGED <<mode, sideVars, poolVars, callVars, dbVars, clock, histVars>>

\* The database's clock advances.
Tick ==
  /\ Gossip
  /\ Alive
  /\ clock < MaxClock
  /\ clock' = clock + 1
  /\ UNCHANGED <<mode, sideVars, poolVars, callVars, netVars, dbVars, histVars>>

(* ---------------------------- dispatcher ----------------------------- *)

RECURSIVE ReadyOf(_, _)
ReadyOf(socks, buf) ==
  IF socks = <<>> THEN <<>>
  ELSE IF buf[Head(socks)] # <<>>
       THEN <<Head(socks)>> \o ReadyOf(Tail(socks), buf)
       ELSE ReadyOf(Tail(socks), buf)

\* run(): select() returns the sockets that have a datagram to read.
Select ==
  /\ Relay
  /\ dpc = "select"
  /\ ReadyOf(BoundSockets, sockbuf) # <<>>
  /\ ready' = ReadyOf(BoundSockets, sockbuf)
  /\ dpc' = "loop"
  /\ UNCHANGED <<mode, sideVars, poolVars, dtask, nextId, accepted, rejected, netVars,
                 dbVars, clock, histVars>>

\* A faulty recvfrom() that returns the datagram that arrived last.
RecvfromNewest(buf) ==
  [d |-> buf[Len(buf)], rest |-> SubSeq(buf, 1, Len(buf) - 1)]

\* sock.recvfrom(): the datagram that arrived first at the socket, and the
\* datagrams it leaves in the socket's buffer.
Recvfrom(buf) == [d |-> Head(buf), rest |-> Tail(buf)]

\* run(): for the next ready socket, recvfrom() reads one datagram and
\* pool.add() is called with handle_packet and (packet, host, port).
RecvAdd ==
  /\ Relay
  /\ dpc = "loop"
  /\ LET sock == Head(ready)
         d    == Recvfrom(sockbuf[sock]).d
     IN  /\ sockbuf' = [sockbuf EXCEPT ![sock] = Recvfrom(@).rest]
         /\ ready' = Tail(ready)
         /\ AddTask(Task(NewId, "handle_packet", d.packet, d.host, d.port),
                    IF Tail(ready) = <<>> THEN "select" ELSE "loop")
  /\ UNCHANGED <<mode, sideVars, wpc, wtask, wstmt, wtell, local, nrecv, dbVars, clock,
                 histVars>>

\* getpeername() succeeds on a connected socket only: the tell sockets of
\* the gossip hub are connected, the hub sockets of the failover hub are
\* bound and never connected.
GetPeerNameOk == Gossip

\* The payload echo_to_hubs() builds; '%i' % rowid is a TypeError unless
\* rowid is a number.
FailoverPayload(rowid, host, time, packet) ==
  <<"failover player", NL, BS, "rowid", BS>> \o Decimal(rowid.v)
    \o <<BS, "server", BS>> \o host \o <<BS, "time", BS, time.v, NL, packet.v>>

\* echo_to_hubs() for one entry: ok is FALSE when an exception leaves it
\* (the format of the payload, or getpeername() outside the try), out is
\* the bag of the packets handed to sendall().
EchoToHubs(config, rowid, hubs, host, packet, time) ==
  IF rowid.text THEN [ok |-> FALSE, out |-> EmptyBag]
  ELSE IF hubs # <<>> /\ ~GetPeerNameOk THEN [ok |-> FALSE, out |-> EmptyBag]
  ELSE [ok  |-> TRUE,
        out |-> SetToBag({[to |-> hubs[i], ok |-> TRUE,
                           packet |-> Authenticate(config.hubs[hubs[i]][2],
                               FailoverPayload(rowid, host, time, packet))] :
                          i \in 1..Len(hubs)})]

\* The flush of run(): ok is FALSE when an exception leaves the loop over
\* the entries, out is the bag of the packets handed to sendall() before.
RECURSIVE FlushEntries(_, _, _)
FlushEntries(config, hubs, entries) ==
  IF entries = <<>> THEN [ok |-> TRUE, out |-> EmptyBag]
  ELSE LET ent  == Head(entries)
           src  == SourceServer(ent)
           echo == EchoToHubs(config, ent[1], hubs, src.v, ent[4], ent[5])
           rest == FlushEntries(config, hubs, Tail(entries))
       IN  IF ~src.ok THEN [ok |-> FALSE, out |-> EmptyBag]
           ELSE IF ~echo.ok THEN echo
           ELSE [ok |-> rest.ok, out |-> echo.out (+) rest.out]

\* run(): select() timed out with no socket ready; the dispatch thread
\* (logged as task 0) opens the database, reads the entries of table
\* failover and echoes them to the hubs.
Flush ==
  /\ Failover
  /\ dpc = "select"
  /\ ReadyOf(BoundSockets, sockbuf) = <<>>
  /\ flushes < MaxFlush
  /\ flushes' = flushes + 1
  /\ LET res == FlushEntries(FailoverConfig, <<"H1">>, GetDbEntries(outbox))
     IN  /\ dpc' = IF res.ok THEN "select" ELSE "stopped"
         /\ sent' = sent (+) res.out
  /\ log' = log \cup {<<0, "get_db_entries">>}
  /\ UNCHANGED <<mode, sideVars, poolVars, dtask, ready, nextId, accepted, rejected,
                 netVars, dbVars, clock, digests, finished, created, acked,
                 closed>>

\* safe_run() logs the exception that ended run(); main() closes the
\* database and the sockets.
MainClose ==
  /\ Relay
  /\ dpc = "stopped"
  /\ dpc' = "closed"
  /\ closed' = TRUE
  /\ UNCHANGED <<mode, sideVars, poolVars, dtask, ready, nextId, accepted, rejected,
                 netVars, dbVars, clock, sent, digests, finished, created,
                 acked, flushes, log>>

(* ------------------------------ workers ------------------------------ *)

\* A faulty handle_packet() that takes every sender it does not know as a
\* listen peer for the first game server.
GossipHandlePacketAnySender(config, host, port, packet) ==
  IF host \in DOMAIN config.listen
  THEN [role |-> "listen"] @@ HandleGossip(config, host, port, packet)
  ELSE [role |-> "server"] @@ HandleUserinfo(config, "S1", port, packet)

\* A faulty handle_packet() that looks for the sender in listen first.
GossipHandlePacketListenFirst(config, host, port, packet) ==
  IF host \in DOMAIN config.listen
  THEN [role |-> "listen"] @@ HandleGossip(config, host, port, packet)
  ELSE IF host \in DOMAIN config.servers
  THEN [role |-> "server"] @@ HandleUserinfo(config, host, port, packet)
  ELSE [role |-> ""] @@ Outcome("return", 0, NoKey)

\* handle_packet() of hub.py: the role of the sender's address picks the
\* handler; role is "server", "listen" or "" (a spurious packet).
GossipHandlePacket(config, host, port, packet) ==
  IF host \in DOMAIN config.servers
  THEN [role |-> "server"] @@ HandleUserinfo(config, host, port, packet)
  ELSE IF host \in DOMAIN config.listen
  THEN [role |-> "listen"] @@ HandleGossip(config, host, port, packet)
  ELSE [role |-> ""] @@ Outcome("return", 0, NoKey)

\* handle_packet() of failover.py: a packet from a server is written to
\* table failover as it is; a packet from a hub goes to handle_hub().
FailoverHandlePacket(config, host, port, packet) ==
  IF host \in DOMAIN config.servers
  THEN [role |-> "server"] @@
       Outcome("store", 0, [server |-> host, port |-> port, packet |-> packet])
  ELSE IF host \in DOMAIN config.hubs
  THEN [role |-> "hub"] @@ HandleHub(config, host, packet)
  ELSE [role |-> ""] @@ Outcome("return", 0, NoKey)

HandlePacket(t) ==
  IF Gossip
  THEN GossipHandlePacket(GossipConfig, t.host, t.port, t.packet)
  ELSE FailoverHandlePacket(FailoverConfig, t.host, t.port, t.packet)

\* The value of a text of decimal digits, -1 for any other text.
RECURSIVE ParseDecimal(_)
ParseDecimal(text) ==
  IF text = <<>> THEN -1
  ELSE LET last == RowidOf(text[Len(text)])
           init == ParseDecimal(SubSeq(text, 1, Len(text) - 1))
       IN  IF last = -1 THEN -1
           ELSE IF Len(text) = 1 THEN last
           ELSE IF init = -1 THEN -1
           ELSE 10 * init + last

\* The task of worker w ends: __run_task() returned (an Exception raised by
\* the task is logged there) and __run_forever() calls task_done().
TaskDone(w) ==
  /\ wpc' = [wpc EXCEPT ![w] = "get"]
  /\ finished' = finished \cup {wtask[w].id}
  /\ wtask' = [wtask EXCEPT ![w] = NoTask]
  /\ wstmt' = [wstmt EXCEPT ![w] = NoStmt]
  /\ wtell' = [wtell EXCEPT ![w] = 0]

\* handle_packet() has returned or raised in worker w: the end of
\* __run_task().
HandleEnd(w, result) ==
  IF RunTask(GetArgSpecOk(wtask[w].func), result) = "get"
  THEN TaskDone(w)
  ELSE /\ wpc' = [wpc EXCEPT ![w] = "dead"]
       /\ UNCHANGED <<finished, wtask, wstmt, wtell>>

\* How handle_packet() ends when it ends without a statement that writes:
\* it returns after a debug message, or an exception leaves it.
HandleResult(out) ==
  IF out \in {"return", "length", "reject", "kind"} THEN "return" ELSE "raise"

\* The acknowledgment worker w has processed, if its task is one: the rowid
\* a valid 'got failover player' packet carries for an entry created before.
AckOf(w) ==
  LET res == HandlePacket(wtask[w])
  IN  IF mode = "failover" /\ res.out = "delete"
         /\ ParseDecimal(res.key) \in created
      THEN {ParseDecimal(res.key)}
      ELSE {}

\* A faulty write_player() / write_gossip() that inserts whatever its
\* SELECT found.
UpsertStmtInsertOnly(tbl, rows, key) ==
  [op |-> "insert", tbl |-> tbl, key |-> key, at |-> 0]

\* The statement write_player() / write_gossip() runs after its SELECT.
UpsertStmt(tbl, rows, key) ==
  [op |-> IF SelectKey(rows, key) = {} THEN "insert" ELSE "update",
   tbl |-> tbl, key |-> key, at |-> 0]

\* __run_task() for handle_packet, up to the first statement that writes:
\* the packet is examined, authenticated and parsed; write_player() and
\* write_gossip() run their SELECT.
Handle(w) ==
  /\ Relay
  /\ Alive
  /\ wpc[w] = "run"
  /\ LET res == HandlePacket(wtask[w])
         del == DelDbEntry(res.key)
     IN  /\ digests' = digests + res.digests
         /\ IF res.out = "write"
            THEN /\ wstmt' = [wstmt EXCEPT ![w] =
                        IF res.role = "server"
                        THEN UpsertStmt("Players", players, res.key)
                        ELSE UpsertStmt("Gossips", gossips, res.key)]
                 /\ wpc' = [wpc EXCEPT ![w] = "stmt"]
                 /\ UNCHANGED <<wtask, wtell, finished, acked>>
            ELSE IF res.out = "store"
            THEN /\ wstmt' = [wstmt EXCEPT ![w] =
                        [op |-> "insert", tbl |-> "failover", key |-> res.key,
                         at |-> 0]]
                 /\ wpc' = [wpc EXCEPT ![w] = "stmt"]
                 /\ UNCHANGED <<wtask, wtell, finished, acked>>
            ELSE IF res.out = "delete" /\ del.out = "delete"
            THEN /\ wstmt' = [wstmt EXCEPT ![w] =
                        [op |-> "delete", tbl |-> "failover",
                         key |-> del.rowid, at |-> 0]]
                 /\ wpc' = [wpc EXCEPT ![w] = "stmt"]
                 /\ UNCHANGED <<wtask, wtell, finished, acked>>
            ELSE /\ HandleEnd(w, HandleResult(res.out))
                 /\ acked' = acked \cup AckOf(w)
         /\ log' = log
              \cup (IF res.role = "" THEN {<<wtask[w].id, "spurious">>} ELSE {})
              \cup (IF res.out = "reject" THEN {<<wtask[w].id, "checksum">>}
                    ELSE {})
              \cup (IF res.out \in {"length", "kind", "assert"}
                    THEN {<<wtask[w].id, res.out>>} ELSE {})
              \cup (IF res.out = "write"
                    THEN {<<wtask[w].id,
                            IF res.role = "server" THEN "write_player"
                            ELSE "write_gossip">>}
                    ELSE {})
              \cup (IF res.out = "delete" /\ del.out = "delete"
                    THEN {<<wtask[w].id, "del_db_entry">>} ELSE {})
              \cup (IF res.out \in {"raise", "assert"}
                       \/ (res.out = "delete" /\ del.out = "raise")
                    THEN RunLog(wtask[w].id, GetArgSpecOk(wtask[w].func),
                                "raise")
                    ELSE {})
  /\ UNCHANGED <<mode, sideVars, queue, local, callVars, netVars, dbVars, clock, sent,
                 created, flushes, closed>>

\* The INSERT, UPDATE or DELETE of worker w runs: it opens a transaction
\* and takes the database's write lock, which no other connection holds.
Execute(w) ==
  /\ Relay
  /\ Alive
  /\ wpc[w] = "stmt"
  /\ \A v \in Workers : wpc[v] # "commit"
  /\ wstmt' = [wstmt EXCEPT ![w].at = clock]
  /\ wpc' = [wpc EXCEPT ![w] = "commit"]
  /\ UNCHANGED <<mode, sideVars, queue, wtask, wtell, local, callVars, netVars, dbVars,
                 clock, histVars>>

\* A faulty store whose UPDATE empties the table it is run on.
ApplyTruncating(tbl, rows, stmt) ==
  IF stmt.tbl # tbl THEN rows
  ELSE IF stmt.op = "insert" THEN InsertRow(rows, stmt.key, stmt.at)
  ELSE <<>>

\* A table after the statement stmt of a committed transaction.
Apply(tbl, rows, stmt) ==
  IF stmt.tbl # tbl THEN rows
  ELSE IF stmt.op = "insert" THEN InsertRow(rows, stmt.key, stmt.at)
  ELSE IF stmt.op = "update" THEN UpdateRows(rows, stmt.key, stmt.at)
  ELSE rows

\* A store that gives a new entry the largest rowid in the table plus one.
NextRowidAfterLargest(tbl, last) ==
  IF tbl = <<>> THEN 1
  ELSE (CHOOSE m \in {tbl[i].rowid : i \in 1..Len(tbl)} :
          \A i \in 1..Len(tbl) : tbl[i].rowid <= m) + 1

\* The rowid the store gives a new entry of table failover: one more than
\* the last rowid it gave (failover.sql; the ids are monotonic).
NextRowid(tbl, last) == last + 1

\* Table failover after the statement stmt of a committed transaction.
ApplyFailover(rows, last, stmt) ==
  IF stmt.tbl # "failover" THEN rows
  ELSE IF stmt.op = "insert"
  THEN InsertFailover(rows, NextRowid(rows, last), stmt.key.server,
                      stmt.key.port, stmt.key.packet, stmt.at)
  ELSE IF stmt.op = "delete" THEN DeleteFailover(rows, stmt.key)
  ELSE rows

\* A faulty hub that echoes what write_gossip() recorded as well.
EchoesAll(stmt) == Len(TellSockets) > 0

\* The call of echo_tell(): handle_userinfo() makes it after write_player()
\* when there are tell sockets, handle_gossip() never does.
Echoes(stmt) == stmt.tbl = "Players" /\ Len(TellSockets) > 0

\* database.commit() of worker w; handle_userinfo() goes on to echo_tell()
\* when there are tell sockets.
Commit(w) ==
  /\ Relay
  /\ Alive
  /\ wpc[w] = "commit"
  /\ players' = Apply("Players", players, wstmt[w])
  /\ gossips' = Apply("Gossips", gossips, wstmt[w])
  /\ outbox' = ApplyFailover(outbox, lastRowid, wstmt[w])
  /\ lastRowid' = IF wstmt[w].tbl = "failover" /\ wstmt[w].op = "insert"
                  THEN NextRowid(outbox, lastRowid) ELSE lastRowid
  /\ created' = created \cup {outbox'[i].rowid : i \in 1..Len(outbox')}
  /\ IF Echoes(wstmt[w])
     THEN /\ wpc' = [wpc EXCEPT ![w] = "tell"]
          /\ wtell' = [wtell EXCEPT ![w] = 1]
          /\ UNCHANGED <<wtask, wstmt, finished, acked>>
     ELSE /\ HandleEnd(w, "return")
          /\ acked' = acked \cup AckOf(w)
  /\ UNCHANGED <<mode, sideVars, queue, local, callVars, netVars, clock, sent, digests,
                 flushes, log, closed>>

\* A faulty lookup that takes the secret of the first tell socket for all.
TellSecretOfFirst(config, out) == config.tell[TellSockets[1]][2]

\* config['tell'][out.getpeername()[0]][1]
TellSecret(config, out) == config.tell[out][2]

\* A faulty echo_tell() that lets the socket error of sendall() go: the
\* remaining tell sockets are not served.
TellStopOnError(w) ==
  /\ Relay
  /\ Alive
  /\ wpc[w] = "tell"
  /\ LET out    == TellSockets[wtell[w]]
         key    == wstmt[w].key
         secret == TellSecret(GossipConfig, out)
         packet == Authenticate(secret,
                     TellPayload(wtask[w].host, wtask[w].port,
                                 key.name, key.ip, key.guid))
     IN  \E ok \in BOOLEAN :
           /\ sent' = sent (+) SetToBag({[to |-> out, ok |-> ok,
                                         packet |-> packet]})
           /\ IF ok /\ wtell[w] < Len(TellSockets)
              THEN /\ wtell' = [wtell EXCEPT ![w] = @ + 1]
                   /\ UNCHANGED <<wpc, wtask, wstmt, finished>>
              ELSE HandleEnd(w, "return")
  /\ UNCHANGED <<mode, sideVars, queue, local, callVars, netVars, dbVars, clock,
                 digests, created, acked, flushes, log, closed>>

\* echo_tell(): the packet for the next tell socket is built and handed to
\* sendall(), which sends it or fails with a socket error that is logged.
Tell(w) ==
  /\ Relay
  /\ Alive
  /\ wpc[w] = "tell"
  /\ LET out    == TellSockets[wtell[w]]
         key    == wstmt[w].key
         secret == TellSecret(GossipConfig, out)
         packet == Authenticate(secret,
                     TellPayload(wtask[w].host, wtask[w].port,
                                 key.name, key.ip, key.guid))
     IN  \E ok \in BOOLEAN :
           sent' = sent (+) SetToBag({[to |-> out, ok |-> ok,
                                      packet |-> packet]})
  /\ IF wtell[w] < Len(TellSockets)
     THEN /\ wtell' = [wtell EXCEPT ![w] = @ + 1]
          /\ UNCHANGED <<wpc, wtask, wstmt, finished>>
     ELSE HandleEnd(w, "return")
  /\ UNCHANGED <<mode, sideVars, queue, local, callVars, netVars, dbVars, clock,
                 digests, created, acked, flushes, log, closed>>

(* ------------------------------ startup ------------------------------ *)

\* resolve_config(): one turn of the loop over the section.  hub.py catches
\* socket.gaierror and goes on with the identifier itself; failover.py has
\* no handler, so the exception leaves resolve_config().  A failed
\* assertion leaves it in both.
ResolveEntry ==
  /\ mode = "startup"
  /\ spc = "loop"
  /\ todo # <<>>
  /\ LET server == Head(todo)
         answer == dns[server]
         ip     == IF answer = "" THEN server ELSE answer
     IN  IF answer = "" /\ prog = "failover"
         THEN /\ spc' = "aborted"
              /\ UNCHANGED <<todo, resolved>>
         ELSE IF ip # server
         THEN IF NoDuplicates(resolved, ip)
              THEN /\ resolved' = SetItem(resolved, ip, SectionValue(server))
                   /\ todo' = Tail(todo)
                   /\ spc' = "loop"
              ELSE /\ spc' = "aborted"
                   /\ UNCHANGED <<todo, resolved>>
         ELSE IF NoDuplicates(resolved, server)
              THEN /\ resolved' = SetItem(resolved, server,
                                          SectionValue(server))
                   /\ todo' = Tail(todo)
                   /\ spc' = "loop"
              ELSE /\ spc' = "aborted"
                   /\ UNCHANGED <<todo, resolved>>
  /\ UNCHANGED <<mode, prog, section, dns, modelVars, tripVars, roleVars, relayVars>>

\* resolve_config(): return resolved
ResolveReturn ==
  /\ mode = "startup"
  /\ spc = "loop"
  /\ todo = <<>>
  /\ spc' = "returned"
  /\ UNCHANGED <<mode, prog, section, dns, todo, resolved, modelVars, tripVars, roleVars,
                 relayVars>>

(* ----------------------------- data model ---------------------------- *)

\* The names of the players and the logins of the users that are created;
\* both are under a unique constraint.
PlayerNames == {"A", "B", "C"}
Logins == {"girt", "mad"}

\* A faulty Player.__init__() that leaves `last` at the epoch.
PlayerInitFirstOnly(name, now) ==
  [id |-> 0, name |-> name, first |-> now, last |-> 0]

\* Player.__init__(): self.first = self.last = datetime.utcnow(); the id is
\* None until the row is inserted.
PlayerInit(name, now) == [id |-> 0, name |-> name, first |-> now, last |-> now]

\* The id the database gives a new row: one more than the largest in use.
RECURSIVE MaxId(_)
MaxId(tbl) ==
  IF tbl = <<>> THEN 0
  ELSE LET m == MaxId(Tail(tbl))
       IN  IF Head(tbl).id > m THEN Head(tbl).id ELSE m

\* INSERT of the objects objs, in the order they were added to the session.
RECURSIVE InsertAll(_, _)
InsertAll(tbl, objs) ==
  IF objs = <<>> THEN tbl
  ELSE InsertAll(Append(tbl, [Head(objs) EXCEPT !.id = MaxId(tbl) + 1]),
                 Tail(objs))

\* A faulty relationship without the delete cascade: the rows of the user's
\* game admins stay.
CascadeNone(tbl, user_id) == tbl

\* relationship('GameAdmin', cascade='all, delete, delete-orphan'): the
\* session deletes the game admins of a user it deletes.
Cascade(tbl, user_id) ==
  LET others(row) == row.user_id # user_id
  IN  SelectSeq(tbl, others)

\* datetime.utcnow() has moved on.
UtcTick ==
  /\ mode = "players"
  /\ utcnow < MaxUtc
  /\ utcnow' = utcnow + 1
  /\ UNCHANGED <<mode, startVars, tripVars, roleVars, session, model_players, users, game_admins,
                 relayVars>>

\* Player(...) followed by session.add(player)
NewPlayer ==
  /\ mode = "players"
  /\ Len(model_players) + Len(session) < MaxRows
  /\ MaxId(model_players) + Len(session) < MaxIds
  /\ \E name \in PlayerNames :
       /\ \A i \in 1..Len(model_players) : model_players[i].name # name
       /\ \A i \in 1..Len(session) : session[i].name # name
       /\ session' = Append(session, PlayerInit(name, utcnow))
  /\ UNCHANGED <<mode, startVars, tripVars, roleVars, utcnow, model_players, users, game_admins,
                 relayVars>>

\* session.commit() with new players in the session
CommitPlayers ==
  /\ mode = "players"
  /\ session # <<>>
  /\ model_players' = InsertAll(model_players, session)
  /\ session' = <<>>
  /\ UNCHANGED <<mode, startVars, tripVars, roleVars, utcnow, users, game_admins, relayVars>>

\* session.delete(player); session.commit()
DeletePlayer ==
  /\ mode = "players"
  /\ \E i \in 1..Len(model_players) :
       LET others(row) == row.id # model_players[i].id
       IN  model_players' = SelectSeq(model_players, others)
  /\ UNCHANGED <<mode, startVars, tripVars, roleVars, utcnow, session, users, game_admins,
                 relayVars>>

\* session.add(User(...)); session.commit()
AddUser ==
  /\ mode = "users"
  /\ Len(users) < Cardinality(Logins)
  /\ MaxId(users) < MaxIds
  /\ \E login \in Logins :
       /\ \A i \in 1..Len(users) : users[i].login # login
       /\ users' = InsertAll(users, <<[id |-> 0, login |-> login]>>)
  /\ UNCHANGED <<mode, startVars, tripVars, roleVars, utcnow, session, model_players,
                 game_admins, relayVars>>

\* session.add(gameadmin); gameadmin.user = user; session.commit()
AddGameAdmin ==
  /\ mode = "users"
  /\ Len(game_admins) < MaxRows
  /\ MaxId(game_admins) < MaxIds
  /\ \E i \in 1..Len(users) :
       game_admins' =
         InsertAll(game_admins, <<[id |-> 0, user_id |-> users[i].id]>>)
  /\ UNCHANGED <<mode, startVars, tripVars, roleVars, utcnow, session, model_players, users,
                 relayVars>>

\* session.delete(gameadmin); session.commit()
DeleteGameAdmin ==
  /\ mode = "users"
  /\ \E i \in 1..Len(game_admins) :
       LET others(row) == row.id # game_admins[i].id
       IN  game_admins' = SelectSeq(game_admins, others)
  /\ UNCHANGED <<mode, startVars, tripVars, roleVars, utcnow, session, model_players, users,
                 relayVars>>

\* session.delete(user); session.commit()
DeleteUser ==
  /\ mode = "users"
  /\ \E i \in 1..Len(users) :
       LET others(row) == row.id # users[i].id
       IN  /\ users' = SelectSeq(users, others)
           /\ game_admins' = Cascade(game_admins, users[i].id)
  /\ UNCHANGED <<mode, startVars, tripVars, roleVars, utcnow, session, model_players, relayVars>>

(* ----------------------------- round trip ---------------------------- *)

\* echo_tell() of the telling hub builds the packet for the sighting and
\* sends it.
EchoTell ==
  /\ mode = "trip"
  /\ tpc = "tell"
  /\ tell_packet' = Authenticate(trip.tell,
                       TellPayload(trip.host, trip.port, trip.name, trip.ip,
                                   trip.guid))
  /\ tpc' = "wire"
  /\ UNCHANGED <<mode, startVars, modelVars, roleVars, trip, listen_out,
                 relayVars>>

\* handle_gossip() of the listening hub is run on the packet, received
\* from the telling hub's address.
Listen ==
  /\ mode = "trip"
  /\ tpc = "wire"
  /\ listen_out' = HandleGossip(ListenConfig(trip.listen), TellerHost,
                                trip.from, tell_packet)
  /\ tpc' = "done"
  /\ UNCHANGED <<mode, startVars, modelVars, roleVars, trip, tell_packet,
                 relayVars>>

(* ------------------------------- roles ------------------------------- *)

\* The packet of a role case.
CarriedPacket(c) ==
  IF c.carries = "userinfo" THEN ServerPacket(<<"k1">>, UserinfoPayload)
  ELSE IF c.carries = "junk" THEN <<"ab">>
  ELSE IF c.prog = "hub" THEN Authenticate(<<"k2">>, GossipPayload)
  ELSE Authenticate(<<"k2">>, AckPayload(<<"9">>))

\* run(): recvfrom() on the ready socket gives the packet and the sender's
\* address; the task handed to the pool is handle_packet with packet, host
\* and port, and holds nothing of the socket.
RoleRecv ==
  /\ mode = "roles"
  /\ rpc = "recv"
  /\ rtask' = Task(1, "handle_packet", CarriedPacket(rcase), rcase.host,
                   rcase.port)
  /\ rpc' = "run"
  /\ UNCHANGED <<mode, startVars, modelVars, tripVars, rcase, rout, relayVars>>

\* handle_packet() of the program, with the configuration of the case.
RoleHandle ==
  /\ mode = "roles"
  /\ rpc = "run"
  /\ rout' = IF rcase.prog = "hub"
             THEN GossipHandlePacket(RoleConfig(rcase.servers, rcase.peers),
                                     rtask.host, rtask.port, rtask.packet)
             ELSE FailoverHandlePacket(RoleConfig(rcase.servers, rcase.peers),
                                       rtask.host, rtask.port, rtask.packet)
  /\ rpc' = "done"
  /\ UNCHANGED <<mode, startVars, modelVars, tripVars, rcase, rtask, relayVars>>

(* --------------------------- specification --------------------------- *)

\* The thread pool under a driver that adds tasks (pool.py alone).
NextPool ==
  \/ Submit
  \/ AddPut
  \/ AddTimeout
  \/ \E w \in Workers : WorkerStart(w)
  \/ \E w \in Workers : WorkerGet(w)
  \/ \E w \in Workers : WorkerRun(w)

\* The gossip hub (hub.py with pool.py).
NextGossip ==
  \/ Arrive
  \/ Tick
  \/ Select
  \/ RecvAdd
  \/ AddPut
  \/ AddTimeout
  \/ MainClose
  \/ \E w \in Workers : WorkerStart(w)
  \/ \E w \in Workers : WorkerGet(w)
  \/ \E w \in Workers : Handle(w)
  \/ \E w \in Workers : Execute(w)
  \/ \E w \in Workers : Commit(w)
  \/ \E w \in Workers : Tell(w)

\* The failover hub (failover.py with pool.py).
NextFailover ==
  \/ Arrive
  \/ Select
  \/ RecvAdd
  \/ Flush
  \/ AddPut
  \/ AddTimeout
  \/ MainClose
  \/ \E w \in Workers : WorkerStart(w)
  \/ \E w \in Workers : WorkerGet(w)
  \/ \E w \in Workers : Handle(w)
  \/ \E w \in Workers : Execute(w)
  \/ \E w \in Workers : Commit(w)

\* Either hub.
NextRelay == NextGossip \/ Flush

\* A program that keeps players in the data model of model.py through one
\* session, and one that keeps users and their game admins.
NextPlayers ==
  \/ UtcTick
  \/ NewPlayer
  \/ CommitPlayers
  \/ DeletePlayer
NextUsers ==
  \/ AddUser
  \/ AddGameAdmin
  \/ DeleteGameAdmin
  \/ DeleteUser

\* load_config() resolving one section of the config file.
NextStartup == ResolveEntry \/ ResolveReturn

\* A sighting told by one hub to the next.
NextTrip == EchoTell \/ Listen

\* A datagram on its way to the handler of its sender's role.
NextRoles == RoleRecv \/ RoleHandle

\* The failover hub (failover.py with pool.py) under steady traffic that
\* writes no statement.
NextStream ==
  \/ Arrive
  \/ Select
  \/ RecvAdd
  \/ Flush
  \/ AddPut
  \/ AddTimeout
  \/ MainClose
  \/ \E w \in Workers : WorkerStart(w)
  \/ \E w \in Workers : WorkerGet(w)
  \/ \E w \in Workers : Handle(w)

InitPool == Init /\ mode = "pool"
InitGossip == Init /\ mode = "gossip"
InitFailover == Init /\ mode = "failover"
InitRelay == Init /\ mode \in {"gossip", "failover"}
InitBurst == Init /\ mode = "burst"
InitKeys == Init /\ mode = "keys"
InitStartup == Init /\ mode = "startup"
InitUsers == Init /\ mode = "users"
InitStore == Init /\ mode \in {"gossip", "players"}
InitTrip == Init /\ mode = "trip"
InitRoles == Init /\ mode = "roles"
InitStream == Init /\ mode = "stream"

SpecPool == InitPool /\ [][NextPool]_vars
\* The pool with threads that the system schedules again and again: a
\* worker that can take a step takes it, and so does a caller that put()
\* can wake.
SpecPoolFair ==
  /\ SpecPool
  /\ WF_vars(AddPut)
  /\ \A w \in Workers :
       WF_vars(WorkerStart(w)) /\ WF_vars(WorkerGet(w)) /\ WF_vars(WorkerRun(w))
SpecGossip == InitGossip /\ [][NextGossip]_vars
SpecFailover == InitFailover /\ [][NextFailover]_vars
SpecRelay == InitRelay /\ [][NextRelay]_vars
\* The gossip hub under a burst of datagrams.
SpecBurst == InitBurst /\ [][NextGossip]_vars
\* The gossip hub with players that differ in one key column.
SpecKeys == InitKeys /\ [][NextGossip]_vars
SpecStartup == InitStartup /\ [][NextStartup]_vars
SpecUsers == InitUsers /\ [][NextUsers]_vars
SpecTrip == InitTrip /\ [][NextTrip]_vars
SpecRoles == InitRoles /\ [][NextRoles]_vars
\* The failover hub under steady traffic, with threads that the system
\* schedules again and again: select() returns when a socket is ready, and
\* times out when none is for the whole of its timeout; the dispatcher reads
\* the sockets select() gave it; a caller that put() can wake goes on; a
\* worker that can take a step takes it.  The network owes nothing.
SpecStream ==
  /\ InitStream /\ [][NextStream]_vars
  /\ WF_vars(Select) /\ WF_vars(RecvAdd) /\ WF_vars(Flush) /\ WF_vars(AddPut)
  /\ \A w \in Workers :
       WF_vars(WorkerStart(w)) /\ WF_vars(WorkerGet(w)) /\ WF_vars(Handle(w))
\* The records of sightings: table Players of hub.py and Player of model.py.
SpecStore == InitStore /\ [][NextGossip \/ NextPlayers]_vars


(* ----------------------------- properties ---------------------------- *)

\* The hosts the configuration of the running program gives a role.
KnownSenders ==
  IF Gossip
  THEN DOMAIN GossipConfig.servers \cup DOMAIN GossipConfig.listen
  ELSE DOMAIN FailoverConfig.servers \cup DOMAIN FailoverConfig.hubs

\* The ids of the tasks in the queue, and of the tasks workers hold.
Queued == {queue[i].id : i \in 1..Len(queue)}
Held == {wtask[w].id : w \in Workers} \ {NoTask.id}

\* The rowids of the entries in table failover.
Pending == {outbox[i].rowid : i \in 1..Len(outbox)}

\* C1: a worker that runs handle_packet() for a datagram whose sender has no
\* role ends the task in that very step: no checksum is computed, tables
\* Players, Gossips and failover are as before, no statement is prepared and
\* nothing is handed to sendall().
C1_UnknownSenderIgnored ==
  [][\A w \in Workers :
       (wpc[w] = "run" /\ wpc'[w] # "run" /\ wtask[w].host \notin KnownSenders)
       => /\ wpc'[w] = "get"
          /\ wtask[w].id \in finished'
          /\ wstmt'[w] = NoStmt
          /\ UNCHANGED <<digests, players, gossips, outbox, lastRowid, sent>>]_vars

\* A datagram of an unknown sender was handled and logged as spurious, in a
\* run that also wrote rows.
C1_Witness ==
  /\ \E id \in finished : <<id, "spurious">> \in log
  /\ digests = 1
  /\ players # <<>> \/ gossips # <<>> \/ outbox # <<>>

\* The secret the gossip hub's configuration holds for a sender.
SenderSecret(host) ==
  IF host \in DOMAIN GossipConfig.servers THEN GossipConfig.servers[host][2]
  ELSE IF host \in DOMAIN GossipConfig.listen THEN GossipConfig.listen[host][2]
  ELSE <<>>

\* The packet of task t carries, before its first newline, the digest of
\* secret + newline + body under the secret of t's sender.
TokenValid(t) ==
  LET data == IF t.host \in DOMAIN GossipConfig.servers
              THEN SubSeq(t.packet, 5, Len(t.packet)) ELSE t.packet
      i    == Find(data, NL, 1)
  IN  /\ t.host \in KnownSenders
      /\ i > 0
      /\ SubSeq(data, 1, i - 1) =
           <<HexDigest(SenderSecret(t.host) \o <<NL>>
                       \o SubSeq(data, i + 1, Len(data)))>>

\* C2: in the gossip hub a worker prepares or runs a statement only for a
\* datagram whose token is the digest under its sender's secret, and tables
\* Players and Gossips change only in the commit of such a worker; so a
\* datagram signed with another secret leaves both tables as they are.
C2_RowsFromAuthenticDatagrams ==
  /\ [](\A w \in Workers :
          wpc[w] \in {"stmt", "commit", "tell"} => TokenValid(wtask[w]))
  /\ [][(players' # players \/ gossips' # gossips)
        => \E w \in Workers : /\ wpc[w] = "commit"
                              /\ wpc'[w] # "commit"
                              /\ TokenValid(wtask[w])]_vars

\* A datagram was dropped for its checksum and the tables hold exactly the
\* row of the authentic datagram handled in the same run.
C2_Witness ==
  /\ \E id \in finished : <<id, "checksum">> \in log
  /\ finished = {1, 2}
  /\ Len(players) + Len(gossips) = 1

\* C3: under every interleaving of the workers, tables Players and Gossips
\* hold at most one row for a natural key.
C3_OneRowPerKey ==
  /\ \A i, j \in 1..Len(players) : players[i].key = players[j].key => i = j
  /\ \A i, j \in 1..Len(gossips) : gossips[i].key = gossips[j].key => i = j

\* Worker w is about to commit a write_player() that ran in sequence with
\* the others for its key: what its SELECT saw still holds, and the key has
\* at most one row.
InSequence(w) ==
  /\ wstmt[w].tbl = "Players"
  /\ (wstmt[w].op = "insert") = (SelectKey(players, wstmt[w].key) = {})
  /\ Cardinality(SelectKey(players, wstmt[w].key)) <= 1

\* C4: a write_player() that finds a row for its key prepares an UPDATE, so
\* it inserts nothing; when a write_player() run in sequence commits, table
\* Players holds exactly one row for the key, and when the row was there
\* before, no row is added, no key column changes, first stays and last
\* does not decrease: two userinfo datagrams for one player handled one
\* after the other leave one row.
C4_IdempotentUpsert ==
  [][\A w \in Workers :
       /\ (wpc[w] = "run" /\ wpc'[w] = "stmt" /\ wstmt'[w].tbl = "Players"
            /\ SelectKey(players, wstmt'[w].key) # {})
          => wstmt'[w].op = "update"
       /\ (wpc[w] = "commit" /\ wpc'[w] # "commit" /\ InSequence(w))
          => /\ Cardinality(SelectKey(players', wstmt[w].key)) = 1
             /\ SelectKey(players, wstmt[w].key) # {}
                => /\ Len(players') = Len(players)
                   /\ \A i \in 1..Len(players) :
                        /\ players'[i].key = players[i].key
                        /\ players'[i].first = players[i].first
                        /\ players'[i].last >= players[i].last
                        /\ players'[i].first <= players'[i].last]_vars

\* Two userinfo datagrams for one player were handled a tick apart: one
\* row, seen twice, first before last.
C4_Witness ==
  /\ finished = {1, 2}
  /\ Len(players) = 1
  /\ players[1].count = 2
  /\ players[1].first < players[1].last

\* C5: a flush hands to sendall() one packet per hub for every entry of
\* table failover not acknowledged, and none for any other entry.
C5_FlushSendsUnacked ==
  [][flushes' = flushes + 1
     => BagCardinality(sent') - BagCardinality(sent)
          = Cardinality(Pending \ acked)]_vars

\* C6: an entry with rowid k is in table failover exactly when it was
\* created and no valid acknowledgment carrying k has been processed.
C6_PendingIffUnacked ==
  \A k \in created : k \in Pending <=> k \notin acked

\* C7: the queue never holds more than max_tasks tasks, so queued and
\* executing tasks never exceed max_tasks + num_threads; the tasks add()
\* returned for are exactly those enqueued (waiting, held by a worker or
\* done), a task add() raised for is none of them, and every task built is
\* accepted, refused with the exception, or still being added.
C7_Backpressure ==
  /\ Len(queue) <= MaxTasks
  /\ Len(queue) + Cardinality({w \in Workers : wpc[w] \notin {"start", "get"}})
       <= MaxTasks + NumThreads
  /\ accepted = Queued \cup Held \cup finished
  /\ rejected \cap (Queued \cup Held \cup finished) = {}
  /\ 1..nextId = accepted \cup rejected
                   \cup (IF dpc = "add" THEN {dtask.id} ELSE {})
  /\ accepted \cap rejected = {}

\* add() raised for a task while the queue was full of accepted tasks and
\* a worker was running another accepted task.
C7_Witness ==
  /\ mode = "pool"
  /\ rejected # {}
  /\ Len(queue) = MaxTasks
  /\ Queued \subseteq accepted
  /\ \E w \in Workers : wpc[w] = "run" /\ wtask[w].id \in accepted

\* C8: whatever a task raises, no worker leaves its task loop.
C8_WorkersSurvive ==
  \A w \in Workers : wpc[w] # "dead"

\* C9: once add() has raised in the dispatch loop, the loop has ended and
\* control is back in main(): the refused task is the last one built (no
\* datagram is read after it), it is not in the queue, held by no worker and
\* never done, and main() can close, or has closed, the database and the
\* sockets.
C9_AddErrorEndsDispatch ==
  rejected # {} =>
    /\ dpc \in {"stopped", "closed"}
    /\ dtask = NoTask
    /\ \A id \in rejected :
         id = nextId /\ id \notin Queued \cup Held \cup finished
    /\ dpc = "stopped" => ~closed /\ ENABLED MainClose
    /\ dpc = "closed" => closed

\* add() raised for the datagram read last and main() has closed the
\* database and the sockets, the accepted datagrams before it being handled.
C9_Witness ==
  /\ Relay
  /\ rejected = {nextId}
  /\ closed
  /\ Len(queue) = MaxTasks

\* C10: in the gossip hub no datagram makes a worker leave its task loop,
\* and the dispatch loop ends for no other reason than add() raising for a
\* full queue.
C10_BadInputSurvived ==
  /\ \A w \in Workers : wpc[w] # "dead"
  /\ dpc \in {"stopped", "closed"} => rejected # {}

\* A handler raised for the first datagram, the pool logged it, and the
\* worker and the dispatcher went on to handle the second datagram.
C10_Witness ==
  /\ mode = "gossip"
  /\ <<1, "exception">> \in log
  /\ finished = {1, 2}
  /\ dpc = "select"

\* C11: when the failover hub commits the entry written for a userinfo
\* datagram of a configured server, table failover has one more entry and
\* the player's Sighting is in table Players; when an acknowledgment for an
\* entry has been processed, the entry is gone and the Sighting is there.
C11_SightingAndOutboxEntry ==
  [][/\ \A w \in Workers :
          (mode = "failover" /\ wpc[w] = "commit" /\ wpc'[w] # "commit"
           /\ wstmt[w].op = "insert"
           /\ wstmt[w].key.packet = ServerPacket(<<"k1">>, UserinfoPayload))
          => /\ Len(outbox') = Len(outbox) + 1
             /\ \E i \in 1..Len(players') : players'[i].key.name = <<"Foo">>
     /\ (mode = "failover" /\ acked' # acked)
          => /\ Pending' \cap acked' = {}
             /\ players' # <<>>]_vars

\* The packet of task t is a 'failover player' message of a configured
\* upstream hub, authentic under that hub's secret.
IsFailoverPlayer(t) ==
  LET i == Find(t.packet, NL, 1)
  IN  /\ t.host \in DOMAIN GossipConfig.listen
      /\ TokenValid(t)
      /\ Len(t.packet) >= i + 2
      /\ SubSeq(t.packet, i + 1, i + 2) = <<"failover player", NL>>

\* C12: the gossip hub goes on to write the GossipRecord for an authentic
\* 'failover player' message of a configured hub, and when it has handled
\* the message a 'got failover player' acknowledgment has been handed to
\* sendall().
C12_FailoverPlayerAcknowledged ==
  [][\A w \in Workers :
       (mode = "gossip" /\ IsFailoverPlayer(wtask[w]))
       => /\ (wpc[w] = "run" /\ wpc'[w] # "run")
             => wpc'[w] = "stmt" /\ wstmt'[w].tbl = "Gossips"
          /\ wtask'[w] = NoTask
             => \E m \in BagToSet(sent') :
                  \E j \in 1..Len(m.packet) :
                    m.packet[j] = "got failover player"]_vars

\* C13: whatever happens to the packets of a flush (a hub that is down makes
\* sendall() fail), the flush ends with the dispatcher back at its
\* readiness wait and with table failover as it was before the flush.
C13_FlushSurvivesSendFailure ==
  [][flushes' = flushes + 1
     => /\ dpc' = "select"
        /\ outbox' = outbox
        /\ ~closed']_vars

\* C14: a step of the dispatch thread (a wakeup, a read and submission, a
\* flush, the end of add()) leaves the tables and the packets handed to
\* sendall() as they are, and the dispatch thread runs no statement on the
\* database.
C14_DispatcherNoIO ==
  [][(dpc' # dpc \/ nextId' # nextId \/ flushes' # flushes)
     => /\ UNCHANGED <<players, gossips, outbox, sent>>
        /\ \A e \in log' : e[1] # 0]_vars

\* C15: init_local runs at most once per worker; a worker that is in its
\* task loop, or holds a task, has run it exactly once and to its end; a
\* worker whose hook raised never holds a task.
C15_HookBeforeTasks ==
  \A w \in Workers :
    /\ local[w].inits <= 1
    /\ wpc[w] = "start" <=> local[w].inits = 0
    /\ (wpc[w] \notin {"start", "failed"} \/ wtask[w] # NoTask)
       => local[w].inits = 1 /\ local[w].ready
    /\ wpc[w] = "failed" => ~local[w].ready /\ wtask[w] = NoTask

\* The hook of one worker raised and that worker holds no task, while
\* another worker, whose hook returned, runs a task.
C15_Witness ==
  /\ \E w \in Workers : wpc[w] = "failed" /\ wtask[w] = NoTask
  /\ \E v \in Workers : wpc[v] = "run" /\ local[v].ready
  /\ queue # <<>>

RECURSIVE SumY(_)
\* The sum of the counters y kept in the storages of a set of workers.
SumY(ws) ==
  IF ws = {} THEN 0
  ELSE LET w == CHOOSE v \in ws : TRUE
       IN  local[w].y + SumY(ws \ {w})

\* C16: a task run by worker w with a storage works on the storage w's
\* run() made and on no other: w's counter grows by one when the task runs
\* to its end, every other worker's storage stays as it is; so the counters
\* sum to the number of tasks that ran to their end.
C16_StoragePerWorker ==
  /\ [](/\ \A w \in Workers : local[w].owner \in {0, w}
        /\ SumY(Workers) = Cardinality({e \in log : e[2] = "finished"}))
  /\ [][\A w \in Workers :
          (mode = "pool" /\ wpc[w] = "run" /\ wpc'[w] # "run")
          => /\ \A v \in Workers \ {w} : local'[v] = local[v]
             /\ local'[w].owner = w
             /\ local'[w].y = local[w].y
                  + (IF <<wtask[w].id, "finished">> \in log' THEN 1 ELSE 0)]_vars

\* Both workers have run tasks to their end, each counting in its own
\* storage.
C16_Witness ==
  /\ mode = "pool"
  /\ \A w \in Workers : local[w].y >= 1 /\ local[w].owner = w
  /\ SumY(Workers) = MaxAdds

\* The binding the pool is to make: the storage for _tp_local, the
\* submitted arguments for the other parameters in their order.
Expected(params, args, storage) ==
  LET others == SelectSeq(params, LAMBDA n : n # "_tp_local")
  IN  [n \in {params[i] : i \in 1..Len(params)} |->
         IF n = "_tp_local" THEN storage ELSE args[IndexOf(others, n)]]

\* C18: the call a worker is about to make for a function binds the
\* worker's storage to _tp_local, wherever the parameter stands, and the
\* submitted arguments to the other parameters in order.
C18_StorageBoundByName ==
  \A w \in Workers :
    (wpc[w] = "run" /\ GetArgSpecOk(wtask[w].func))
    => LET params == Params(wtask[w].func)
           call   == Bind(params, ArgsOf(wtask[w]), StorageOf(w))
       IN  /\ call.ok
           /\ call.env = Expected(params, ArgsOf(wtask[w]), StorageOf(w))

\* C17: the pool has num_threads worker threads that are alive, at every
\* moment of its life, and at most num_threads tasks are being executed.
C17_FixedWorkers ==
  /\ Cardinality({w \in Workers : wpc[w] \notin {"dead", "failed"}})
       = NumThreads
  /\ Cardinality({w \in Workers : wtask[w] # NoTask}) <= NumThreads

\* The datagram of task t after the marker a game server's packets start
\* with; the datagram of an upstream hub has no marker.
Unmarked(t) ==
  IF t.host \in DOMAIN GossipConfig.servers
  THEN SubSeq(t.packet, 5, Len(t.packet))
  ELSE t.packet

\* The kind line the role of t's sender expects.
ExpectedKind(t) ==
  IF t.host \in DOMAIN GossipConfig.servers
  THEN <<"userinfo">> ELSE <<"gossip player">>

\* The checksum token of t is not exactly 32 characters long.
BadToken(t) == PyLen(Split1(Unmarked(t), NL)[1]) # 32

\* The line after the token of t is not the kind expected for its sender.
WrongKind(t) ==
  LET one == Split1(Unmarked(t), NL)
  IN  /\ Len(one) = 2
      /\ Split1(one[2], NL)[1] # ExpectedKind(t)

\* The payload after the kind line of t has an odd number of fields after
\* its leading delimiter.
OddFields(t) ==
  LET one == Split1(Unmarked(t), NL)
      two == IF Len(one) = 2 THEN Split1(one[2], NL) ELSE <<>>
  IN  /\ Len(two) = 2
      /\ Len(Tail(SplitAll(two[2], BS))) % 2 = 1

Malformed(t) ==
  /\ t.host \in KnownSenders
  /\ BadToken(t) \/ WrongKind(t) \/ OddFields(t)

\* C19: the step a worker of the gossip hub takes with a datagram from a
\* configured sender whose token is not 32 characters long, whose kind line
\* is not the one of the sender's role, or whose payload has an odd number
\* of fields ends the task without a write to a table and without a send;
\* and a task that has ended is never queued or held again.
C19_MalformedDropped ==
  [][/\ \A w \in Workers :
          (/\ wtask[w] # NoTask
           /\ Malformed(wtask[w])
           /\ <<wpc[w], wtask[w]>> # <<wpc'[w], wtask'[w]>>)
          => /\ wtask'[w] = NoTask
             /\ wpc'[w] = "get"
             /\ wstmt'[w] = NoStmt
             /\ wtask[w].id \in finished'
             /\ dbVars' = dbVars
             /\ sent' = sent
     /\ \A id \in finished :
          /\ id \in finished'
          /\ id \notin Queued' \cup Held'
          /\ dtask'.id # id]_vars

\* Two datagrams of two of these kinds have been handled, and no table has
\* a row and nothing was sent.
C19_Witness ==
  /\ \E i, j \in finished :
       \E e, f \in {"length", "kind", "assert"} :
         /\ e # f
         /\ <<i, e>> \in log
         /\ <<j, f>> \in log
  /\ players = <<>>
  /\ gossips = <<>>
  /\ sent = EmptyBag
  /\ \A w \in Workers : wtask[w] = NoTask

\* The task add() has been called with last: it is the newest task of the
\* queue, or the one the dispatcher is blocked in put() with.
Submitted == IF dtask # NoTask THEN dtask ELSE queue[Len(queue)]

\* A step in which the dispatcher reads a datagram.
IsRead == Relay /\ nextId' # nextId

AddrOf(server) == IF dns[server] = "" THEN server ELSE dns[server]

\* Two entries of the section come to the same address.
Collide ==
  \E i, j \in 1..Len(section) :
    i # j /\ AddrOf(section[i]) = AddrOf(section[j])

\* The entries the loop of resolve_config() has visited.
Visited == SubSeq(section, 1, Len(section) - Len(todo))

\* C21: resolve_config() on one section either aborts or returns a mapping
\* with as many entries as the section, in which every address carries the
\* (port, secret) of the one configured name that resolves to it; with two
\* entries that come to the same address it never returns, in whichever
\* order the entries are visited.
C21_ResolveInjectiveOrAbort ==
  /\ spc \in {"idle", "loop", "returned", "aborted"}
  /\ spc = "returned" =>
       /\ ~Collide
       /\ Cardinality(DOMAIN resolved) = Len(section)
       /\ \A a \in DOMAIN resolved :
            \E i \in 1..Len(section) :
              /\ AddrOf(section[i]) = a
              /\ resolved[a] = SectionValue(section[i])
              /\ \A j \in 1..Len(section) :
                   AddrOf(section[j]) = a => j = i
  /\ spc = "loop" =>
       /\ Cardinality(DOMAIN resolved) = Len(Visited)
       /\ \A i, j \in 1..Len(Visited) :
            AddrOf(section[i]) = AddrOf(section[j]) => i = j

\* Startup was aborted for a literal address and a host name that resolves
\* to it, with the name visited first.
C21_Witness ==
  /\ spc = "aborted"
  /\ prog = "hub"
  /\ Len(section) = MaxNames
  /\ section[1] = "a.tld"
  /\ section[2] = "1.1.1.1"
  /\ dns["a.tld"] = "1.1.1.1"
  /\ DOMAIN resolved = {"1.1.1.1"}
  /\ resolved["1.1.1.1"] = SectionValue("a.tld")

\* C22: in hub.py and in failover.py, resolve_config() does not abort for an
\* identifier that the resolver cannot resolve: it keeps the entry under the
\* identifier with its (port, secret) and goes on with the next entry.
C22_UnresolvedKept ==
  /\ (spc = "aborted" /\ todo # <<>>) => dns[Head(todo)] # ""
  /\ \A i \in 1..Len(Visited) :
       dns[section[i]] = "" =>
         /\ section[i] \in DOMAIN resolved
         /\ resolved[section[i]] = SectionValue(section[i])

\* The natural keys present in a table.
KeysOf(tbl) == {tbl[i].key : i \in 1..Len(tbl)}

\* C23: no step of either hub removes a row of Players or Gossips: the set
\* of natural keys in each table, and its number of rows, only grow.
C23_RowsOnlyGrow ==
  [][/\ KeysOf(players) \subseteq KeysOf(players')
     /\ KeysOf(gossips) \subseteq KeysOf(gossips')
     /\ Len(players) <= Len(players')
     /\ Len(gossips) <= Len(gossips')]_vars

\* A sighting was written and written again, and its row is there with a
\* count of two.
C23_Witness ==
  /\ mode = "gossip"
  /\ Len(players) = 1
  /\ players[1].count = 2
  /\ finished = {1, 2}

\* Every record of a sighting: the rows of table players of model.py, the
\* Player objects of the session, and the rows of Players of hub.py.
SightingRecords ==
  {model_players[i] : i \in 1..Len(model_players)}
    \cup {session[i] : i \in 1..Len(session)}
    \cup {[first |-> players[i].first, last |-> players[i].last] :
           i \in 1..Len(players)}

\* The records a step creates: Player objects, and rows of Players.
Created(before, after) ==
  {after[i] : i \in (Len(before) + 1)..Len(after)}

\* C24: a record of a sighting has first equal to last when it is created
\* and first at most last ever after, and of two records the one created
\* later has a first that is not earlier.
C24_FirstBeforeLast ==
  [][/\ \A r \in SightingRecords' : r.first <= r.last
     /\ \A r \in Created(session, session') \cup Created(players, players') :
          r.first = r.last
     /\ \A i, j \in 1..Len(session') :
          i < j => session'[i].first <= session'[j].first
     /\ \A i, j \in 1..Len(model_players') :
          model_players'[i].id < model_players'[j].id
          => model_players'[i].first <= model_players'[j].first
     /\ \A i, j \in 1..Len(players') :
          i < j => players'[i].first <= players'[j].first]_vars

\* Two players created at different times are in table players, and a
\* third one is in the session.
C24_Witness ==
  /\ mode = "players"
  /\ Len(model_players) = 2
  /\ model_players[1].first < model_players[2].first
  /\ model_players[2].first = model_players[2].last
  /\ Len(session) = 1

\* The rows of a table, and their ids.
RowsOf(tbl) == {tbl[i] : i \in 1..Len(tbl)}
IdsOf(tbl) == {tbl[i].id : i \in 1..Len(tbl)}

\* C25: a step that deletes a user deletes that user and exactly the game
\* admins that belong to it; a step that deletes a game admin deletes that
\* row only; no game admin refers to a user that is not there; and a row
\* that stays is unchanged, its id included.
C25_CascadeDelete ==
  [][/\ \A u \in RowsOf(users) \ RowsOf(users') :
          /\ RowsOf(users') = RowsOf(users) \ {u}
          /\ RowsOf(game_admins') =
               {a \in RowsOf(game_admins) : a.user_id # u.id}
     /\ RowsOf(users) \subseteq RowsOf(users') =>
          Cardinality(RowsOf(game_admins) \ RowsOf(game_admins')) <= 1
     /\ \A a \in RowsOf(game_admins') : a.user_id \in IdsOf(users')
     /\ \A a \in RowsOf(game_admins') :
          a.id \in IdsOf(game_admins) => a \in RowsOf(game_admins)
     /\ \A u \in RowsOf(users') :
          u.id \in IdsOf(users) => u \in RowsOf(users)
     /\ Cardinality(IdsOf(users')) = Len(users')
     /\ Cardinality(IdsOf(game_admins')) = Len(game_admins')]_vars

\* As in test3_select_after_delete: of three game admins the first was
\* deleted, then the user of the third; user 2 and game admin 2 are left.
C25_Witness ==
  /\ mode = "users"
  /\ IdsOf(users) = {2}
  /\ Len(game_admins) = 1
  /\ game_admins[1] = [id |-> 2, user_id |-> 2]

\* Worker w runs a task that never returns.
Hung(w) == wpc[w] = "run" /\ FuncResult(wtask[w].func) = "hang"

\* C26: a worker that runs a task that never returns keeps that task for
\* good, and while some worker is not hung every task in the queue is
\* eventually taken by a worker to be run, and a caller blocked in add()
\* eventually has its task in the queue.
C26_HungTaskOccupiesOneWorker ==
  /\ \A w \in Workers, id \in 1..MaxAdds :
       []((Hung(w) /\ wtask[w].id = id) => [](Hung(w) /\ wtask[w].id = id))
  /\ ([](\E w \in Workers : ~Hung(w))) =>
       /\ \A id \in 1..MaxAdds :
            (id \in Queued) ~> (id \in Held \cup finished)
       /\ \A id \in 1..MaxAdds :
            (dpc = "add" /\ dtask.id = id) ~> (id \in accepted)

\* C27: the dispatcher submits to the pool only datagrams of senders the
\* configuration knows: no task in the queue, none the dispatcher is adding
\* and none a worker holds carries a datagram of an unknown sender.
C27_UnknownNeverSubmitted ==
  Relay =>
    /\ \A i \in 1..Len(queue) : queue[i].host \in KnownSenders
    /\ dtask # NoTask => dtask.host \in KnownSenders
    /\ \A w \in Workers : wtask[w] # NoTask => wtask[w].host \in KnownSenders

\* The number of packets handed to sendall() on the tell socket out.
RECURSIVE Copies(_)
Copies(recs) ==
  IF recs = {} THEN 0
  ELSE LET r == CHOOSE x \in recs : TRUE
       IN  CopiesIn(r, sent) + Copies(recs \ {r})
SendsTo(out) == Copies({r \in BagToSet(sent) : r.to = out})

\* The number of sightings whose echo_tell() is past the k-th tell socket:
\* those of the tasks that have ended, and those of the workers that are at
\* a later socket.
Told(k) ==
  Cardinality({id \in finished : <<id, "write_player">> \in log})
    + Cardinality({w \in Workers : wpc[w] = "tell" /\ wtell[w] > k})

\* C28: a step of echo_tell() hands one packet to sendall() on the next
\* tell socket and, whether that send fails or not, leaves the tables as
\* they are with the sighting's row in Players, goes on to the next tell
\* socket, and after the last one ends the task without an exception; no
\* tell socket is ever given more packets than there were sightings.
C28_SendFailureIsLost ==
  [][/\ \A w \in Workers :
          (/\ wpc[w] = "tell"
           /\ <<wpc[w], wtell[w]>> # <<wpc'[w], wtell'[w]>>)
          => /\ \A k \in 1..Len(TellSockets) :
                  SendsTo(TellSockets[k])' =
                    SendsTo(TellSockets[k]) + (IF k = wtell[w] THEN 1 ELSE 0)
             /\ dbVars' = dbVars
             /\ wstmt[w].key \in {players[i].key : i \in 1..Len(players)}
             /\ IF wtell[w] < Len(TellSockets)
                THEN /\ wpc'[w] = "tell"
                     /\ wtell'[w] = wtell[w] + 1
                     /\ wtask'[w] = wtask[w]
                ELSE /\ wpc'[w] = "get"
                     /\ wtask[w].id \in finished'
                     /\ <<wtask[w].id, "exception">> \notin log'
     /\ \A k \in 1..Len(TellSockets) :
          SendsTo(TellSockets[k])' = Told(k)']_vars

\* The send of a sighting to the first downstream peer failed, the one to
\* the second was made, the task has ended and the row is in Players.
C28_Witness ==
  /\ mode = "gossip"
  /\ \E r \in BagToSet(sent) : r.to = TellSockets[1] /\ ~r.ok
  /\ \E r \in BagToSet(sent) : r.to = TellSockets[2] /\ r.ok
  /\ SendsTo(TellSockets[1]) = 1
  /\ SendsTo(TellSockets[2]) = 1
  /\ Len(players) = 1
  /\ \E id \in finished : <<id, "write_player">> \in log
  /\ \A w \in Workers : wtask[w] = NoTask

\* The 'gossip player' packet for the peer behind the tell socket out that
\* tells of the Players row with the natural key key.
GossipOf(out, key) ==
  Authenticate(GossipConfig.tell[out][2],
               TellPayload(key.server[1], key.port, key.name, key.ip,
                           key.guid))

\* C29: a worker is in echo_tell() only with its sighting's row committed
\* in Players; every packet handed to a tell socket is the 'gossip player'
\* packet of a committed row, authenticated with the secret configured for
\* that socket's peer; and each tell socket has been handed exactly one
\* packet per userinfo datagram whose echo_tell() has passed it, so a
\* datagram that was rejected has caused no send.
C29_CommitThenOneGossipPerPeer ==
  Gossip =>
    /\ \A w \in Workers :
         wpc[w] = "tell" =>
           /\ wstmt[w].key \in {players[i].key : i \in 1..Len(players)}
           /\ <<wtask[w].id, "write_player">> \in log
    /\ \A r \in BagToSet(sent) :
         \E i \in 1..Len(players) : r.packet = GossipOf(r.to, players[i].key)
    /\ \A k \in 1..Len(TellSockets) : SendsTo(TellSockets[k]) = Told(k)
    /\ \A id \in 1..MaxRecv :
         (\E e \in {"spurious", "length", "checksum", "kind", "assert"} :
            <<id, e>> \in log)
           => <<id, "write_player">> \notin log

\* An accepted userinfo datagram has been told to both downstream peers,
\* each with its own secret, while a rejected datagram has ended as well.
C29_Witness ==
  /\ mode = "gossip"
  /\ Len(players) = 1
  /\ sent = SetToBag({[to |-> out, ok |-> TRUE,
                       packet |-> GossipOf(out, players[1].key)] :
                      out \in {TellSockets[1], TellSockets[2]}})
  /\ \E id \in finished : <<id, "write_player">> \in log
  /\ \E id \in finished : <<id, "checksum">> \in log

\* C30: the packet echo_tell() builds for a sighting with a secret is taken
\* by handle_gossip() of a hub that holds the same secret for the sender,
\* which writes a gossip record with the sighting's name, ip and guid, the
\* server and the port of the sighting and the sender's address:port as the
\* origin; a hub that holds another secret rejects the packet.
C30_RoundTrip ==
  (mode = "trip" /\ tpc = "done") =>
    IF trip.tell = trip.listen
    THEN /\ listen_out.out = "write"
         /\ listen_out.key.name = trip.name
         /\ listen_out.key.ip = trip.ip
         /\ listen_out.key.guid = trip.guid
         /\ listen_out.key.server = <<trip.host>>
         /\ ParseDecimal(listen_out.key.port) = trip.port
         /\ listen_out.key.origin =
              <<TellerHost, COLON>> \o Decimal(trip.from)
    ELSE /\ listen_out.out = "reject"
         /\ listen_out.key = NoKey

\* A sighting whose name holds a newline has made the trip between two
\* hubs that share a secret.
C30_Witness ==
  /\ mode = "trip"
  /\ tpc = "done"
  /\ trip.tell = trip.listen
  /\ trip.name = <<"Foo", NL, "Bar">>
  /\ trip.port = 42
  /\ listen_out.out = "write"
  /\ listen_out.key.name = trip.name

\* The packet of task t is an acknowledgment: it comes from an address
\* configured as a hub and not as a server, its token is the digest under
\* that hub's secret, and its kind line is 'got failover player'.
IsAck(t) ==
  LET i    == Find(t.packet, NL, 1)
      body == SubSeq(t.packet, i + 1, Len(t.packet))
  IN  /\ t.host \in DOMAIN FailoverConfig.hubs
      /\ t.host \notin DOMAIN FailoverConfig.servers
      /\ i > 0
      /\ SubSeq(t.packet, 1, i - 1) =
           <<HexDigest(FailoverConfig.hubs[t.host][2] \o <<NL>> \o body)>>
      /\ Len(body) >= 2
      /\ SubSeq(body, 1, 2) = <<"got failover player", NL>>

\* C31: an entry leaves table failover only in the commit of a worker whose
\* task is an acknowledgment from a configured hub, authentic under that
\* hub's secret and of kind 'got failover player'; a worker whose task is
\* anything else never prepares a DELETE, and a flush leaves the table as
\* it is.
C31_DeletedOnlyByAck ==
  [][mode = "failover" =>
       /\ ~(Pending \subseteq Pending') =>
            \E w \in Workers :
              /\ wpc[w] = "commit"
              /\ wpc'[w] # "commit"
              /\ wstmt[w].op = "delete"
              /\ IsAck(wtask[w])
       /\ \A w \in Workers :
            (wstmt'[w].op = "delete" /\ wstmt[w].op # "delete")
              => IsAck(wtask[w])
       /\ flushes' # flushes => outbox' = outbox]_vars

\* The entry with rowid 9 has been deleted for an acknowledgment, after
\* datagrams from a server and from an unknown sender were handled.
C31_Witness ==
  /\ mode = "failover"
  /\ 9 \in created
  /\ 9 \notin Pending
  /\ acked = {9}
  /\ \E id \in finished : <<id, "spurious">> \in log

\* The 'failover player' packet for the hub h that carries the stored
\* values of the entry row of table failover.
FailoverPlayerOf(h, row) ==
  Authenticate(FailoverConfig.hubs[h][2],
    <<"failover player", NL, BS, "rowid", BS>> \o Decimal(row.rowid)
      \o <<BS, "server", BS, row.server, COLON>> \o Decimal(row.port)
      \o <<BS, "time", BS>> \o Decimal(row.time) \o <<NL>> \o row.packet)

\* The rowid an acknowledgment t echoes.
AckId(t) ==
  LET i    == Find(t.packet, NL, 1)
      body == SubSeq(t.packet, i + 1, Len(t.packet))
  IN  ParseDecimal(Strip(SubSeq(body, 3, Len(body))))

\* C32: a flush hands to sendall(), for every entry of table failover and
\* every configured hub, the 'failover player' packet with the entry's
\* rowid, server, time and packet under that hub's secret; and the commit
\* of an acknowledgment that echoes the rowid of an entry removes that
\* entry and no other.
C32_FlushCarriesStoredEntry ==
  [][mode = "failover" =>
       /\ flushes' # flushes =>
            \A i \in 1..Len(outbox), h \in DOMAIN FailoverConfig.hubs :
              \E r \in BagToSet(sent') :
                r.to = h /\ r.packet = FailoverPlayerOf(h, outbox[i])
       /\ \A w \in Workers :
            (/\ wpc[w] = "commit"
             /\ wpc'[w] # "commit"
             /\ IsAck(wtask[w])
             /\ AckId(wtask[w]) \in Pending)
            => Pending' = Pending \ {AckId(wtask[w])}]_vars

\* The packet of task t is a userinfo datagram of a configured server of
\* the failover hub: marker, digest under that server's secret, kind line.
IsUserinfo(t) ==
  LET data == SubSeq(t.packet, 5, Len(t.packet))
      i    == Find(data, NL, 1)
      body == SubSeq(data, i + 1, Len(data))
  IN  /\ t.host \in DOMAIN FailoverConfig.servers
      /\ Len(t.packet) >= 4
      /\ SubSeq(t.packet, 1, 4) = Header
      /\ i > 0
      /\ SubSeq(data, 1, i - 1) =
           <<HexDigest(FailoverConfig.servers[t.host][2] \o <<NL>> \o body)>>
      /\ Len(body) >= 2
      /\ SubSeq(body, 1, 2) = <<"userinfo", NL>>

\* C33: table failover of the failover hub gets a new entry only in the
\* commit of a worker whose task is a userinfo datagram authentic under
\* its server's secret, and with the player's Sighting in table Players.
C33_EntryOnlyForAuthenticSighting ==
  [][(mode = "failover" /\ ~(Pending' \subseteq Pending)) =>
       \E w \in Workers :
         /\ wpc[w] = "commit"
         /\ wpc'[w] # "commit"
         /\ IsUserinfo(wtask[w])
         /\ players' # <<>>]_vars

\* The key columns of the rows of a table, in the order of the rows.
Identities(tbl) == [i \in 1..Len(tbl) |-> tbl[i].key]

\* The rows of tbl stay, with their key columns, as the first rows of new.
KeepsIdentities(tbl, new) ==
  /\ Len(new) >= Len(tbl)
  /\ SubSeq(Identities(new), 1, Len(tbl)) = Identities(tbl)

\* C34: no step of the gossip hub changes name, ip, guid, server, port or
\* origin of a row of Players or Gossips; and the commit of a write_player()
\* or write_gossip() whose sighting differs from every row of its table in
\* some key column, be it the guid alone, adds one row with the sighting's
\* key after the rows there are.
C34_IdentityFieldsKept ==
  [][Gossip =>
       /\ KeepsIdentities(players, players')
       /\ KeepsIdentities(gossips, gossips')
       /\ \A w \in Workers :
            (wpc[w] = "commit" /\ wpc'[w] # "commit")
            => /\ (wstmt[w].tbl = "Players"
                   /\ wstmt[w].key \notin KeysOf(players))
                  => Identities(players') =
                       Append(Identities(players), wstmt[w].key)
               /\ (wstmt[w].tbl = "Gossips"
                   /\ wstmt[w].key \notin KeysOf(gossips))
                  => Identities(gossips') =
                       Append(Identities(gossips), wstmt[w].key)]_vars

\* Players holds two rows that differ in their guid only, both tasks done.
C34_Witness ==
  /\ mode = "keys"
  /\ Len(players) = 2
  /\ players[1].key # players[2].key
  /\ [players[1].key EXCEPT !.guid = players[2].key.guid] = players[2].key
  /\ finished = {1, 2}

\* The ids of the userinfo datagrams handle_userinfo() has accepted.
AcceptedUserinfo == {id \in 1..nextId : <<id, "write_player">> \in log}

\* C35: a worker whose datagram comes from an upstream hub is never in
\* echo_tell(), and a packet is handed to a tell socket only by a worker
\* whose datagram is an accepted userinfo datagram of a game server; the
\* packets handed to the tell sockets are never more than the accepted
\* userinfo datagrams times the tell sockets.
C35_GossipOneHop ==
  [][Gossip =>
       /\ \A w \in Workers :
            wtask'[w].host \in DOMAIN GossipConfig.listen
              => wpc'[w] # "tell" /\ wtell'[w] = 0
       /\ sent' # sent =>
            \E w \in Workers :
              /\ wpc[w] = "tell"
              /\ wtask[w].host \in DOMAIN GossipConfig.servers
              /\ wtask[w].id \in AcceptedUserinfo
              /\ BagCardinality(sent') = BagCardinality(sent) + 1
       /\ BagCardinality(sent')
            <= Cardinality(AcceptedUserinfo') * Len(TellSockets)]_vars

\* The hub has recorded the gossip of an upstream hub and has told of one
\* userinfo datagram: one packet per tell socket and no more.
C35_Witness ==
  /\ mode = "gossip"
  /\ Len(gossips) = 1
  /\ \E id \in finished : <<id, "write_gossip">> \in log
  /\ Cardinality(AcceptedUserinfo) = 1
  /\ BagCardinality(sent) = Len(TellSockets)
  /\ \A w \in Workers : wtask[w] = NoTask

\* The role of an address under the configuration of a role case: the
\* servers section is looked at first.
RoleOf(c) ==
  IF c.host \in c.servers THEN "server"
  ELSE IF c.host \in c.peers THEN (IF c.prog = "hub" THEN "listen" ELSE "hub")
  ELSE ""

\* C36: handle_packet() treats a datagram by the role of its sender's
\* address, whatever socket it arrived on and whatever its port; an address
\* that is both a server and a peer gets the server's handler with the
\* server's secret: a userinfo packet under that secret is written as a
\* Sighting (hub.py) or stored (failover.py), and the peer's own message
\* from that address is neither recorded as gossip nor taken as an
\* acknowledgment.
C36_RoleByAddress ==
  (mode = "roles" /\ rpc = "done") =>
    /\ rout.role = RoleOf(rcase)
    /\ rcase.host \in rcase.servers =>
         /\ rcase.prog = "hub" =>
              /\ Outcome(rout.out, rout.digests, rout.key) =
                   HandleUserinfo(RoleConfig(rcase.servers, rcase.peers),
                                  rcase.host, rcase.port, CarriedPacket(rcase))
              /\ rcase.carries = "userinfo" <=> rout.out = "write"
         /\ rcase.prog = "failover" => rout.out = "store"
         /\ rout.out # "delete"
         /\ "origin" \notin DOMAIN rout.key
    /\ RoleOf(rcase) = "" => rout.out = "return" /\ rout.digests = 0

\* A gossip packet under the peers secret, sent from an address that is a
\* server and a peer, arrived on a peer socket and was handled as a
\* server's packet: it was dropped for its missing marker.
C36_Witness ==
  /\ mode = "roles"
  /\ rpc = "done"
  /\ rcase.prog = "hub"
  /\ rcase.host = "B1"
  /\ rcase.servers = {"S1", "B1"}
  /\ rcase.peers = {"U1", "B1"}
  /\ rcase.sock = "peers"
  /\ rcase.carries = "peer"
  /\ rout.role = "server"
  /\ rout.out = "return"

\* C37: every step a worker of the failover hub takes with an authentic
\* acknowledgment whose rowid no entry of table failover has leaves the
\* table as it is and the worker alive; the commit of an acknowledgment
\* whose rowid an entry has removes that entry only, and a second DELETE of
\* the same rowid would change nothing.
C37_AckOfMissingIdIsNoOp ==
  [][mode = "failover" =>
       \A w \in Workers :
         (IsAck(wtask[w]) /\ wpc'[w] # wpc[w]) =>
           /\ wpc'[w] \notin {"dead", "failed"}
           /\ AckId(wtask[w]) \notin Pending => outbox' = outbox
           /\ outbox' \in {outbox, DeleteFailover(outbox, AckId(wtask[w]))}
           /\ DeleteFailover(DeleteFailover(outbox, AckId(wtask[w])),
                             AckId(wtask[w]))
                = DeleteFailover(outbox, AckId(wtask[w]))
           /\ wpc[w] = "commit" => AckId(wtask[w]) \notin Pending']_vars

\* Two acknowledgments have been processed to their DELETE, the entry with
\* rowid 9 is gone, no other entry was ever created, and nothing failed:
\* one of the two was for a rowid that no entry had any more, or never had.
C37_Witness ==
  /\ mode = "failover"
  /\ finished = {1, 2}
  /\ <<1, "del_db_entry">> \in log
  /\ <<2, "del_db_entry">> \in log
  /\ created = {9}
  /\ outbox = <<>>
  /\ \A e \in log : e[2] # "exception"
  /\ \A w \in Workers : wpc[w] \in {"start", "get"}

Executed ==
  finished \cup {wtask[w].id : w \in {v \in Workers :
                   wpc[v] = "dead" /\ GetArgSpecOk(wtask[v].func)}}

\* The number of places a task is at: in the queue, with a worker, done.
Places(id) ==
  Cardinality({i \in 1..Len(queue) : queue[i].id = id})
    + Cardinality({w \in Workers : wtask[w].id = id})
    + (IF id \in finished THEN 1 ELSE 0)

\* C39: a task add() accepted is at one place at any time (in the queue,
\* with one worker, or done), a task that is done or with a worker never
\* goes back, and when the process keeps running and no call hangs, every
\* accepted task is eventually called by a worker.
C39_AcceptedRunOnce ==
  /\ [](\A id \in 1..MaxAdds :
          /\ id \in accepted => Places(id) = 1
          /\ id \notin accepted => Places(id) = 0)
  /\ \A w \in Workers, id \in 1..MaxAdds :
       [](wtask[w].id = id => [](wtask[w].id = id \/ id \in finished))
  /\ ([](Alive /\ \A w \in Workers : ~Hung(w)))
       => \A id \in 1..MaxAdds : (id \in accepted) ~> (id \in Executed)

\* The dispatcher of the relay is in its loop: no exception has left run()
\* and main() has not closed the database and the sockets.
Running == ~closed /\ dpc \notin {"stopped", "closed"}

\* C40: in failover mode, from every moment at which the relay runs with an
\* entry in table failover, the relay goes on to flush the outbox (unless it
\* stops or the table empties first), whatever datagrams arrive and however
\* close together; and a flush is a step the dispatcher takes from select()
\* with no socket ready.
C40_PendingEntryIsFlushed ==
  /\ [][flushes' # flushes =>
          /\ dpc = "select"
          /\ ReadyOf(BoundSockets, sockbuf) = <<>>
          /\ flushes' = flushes + 1]_vars
  /\ (Failover /\ Running /\ Pending # {} /\ flushes = 0)
       ~> (flushes > 0 \/ ~Running \/ Pending = {})

====
